---- MODULE Spec2Model ----
(***************************************************************************)
(* Model of the chunked stem separation pipeline of deanturpin/stems:      *)
(* StemProcessor::process with its helpers deinterleave_stereo,            *)
(* interleave_stereo, extract_chunk and blend_chunk, the outcome of        *)
(* StftProcessor::forward and the stem list returned by OnnxModel::infer.  *)
(*                                                                         *)
(* Samples are single-precision floats in the source.  The model holds a   *)
(* sample as an exact rational <<n, d>> in lowest terms, d > 0, so a blend *)
(* weight i/overlap is the fraction itself; float rounding is not          *)
(* modelled.  C++ indices are 0-based, sequences here are 1-based: the     *)
(* element at C++ index p is seq[p + 1].                                   *)
(***************************************************************************)
EXTENDS Integers, Sequences, FiniteSets, TLC

VARIABLES
    pc,                  \* position inside StemProcessor::process
    plan_ok,             \* StftProcessor: forward_plan_ and both buffers non-null
    audio,               \* the interleaved input of the current call
    left, right,         \* the de-interleaved channels
    num_samples,         \* left.size()
    num_chunks,          \* (num_samples + step - 1) / step
    out,                 \* out[s]: drums_out, bass_out, other_out, vocals_out, guitar_out, piano_out
    num_detected_stems,
    chunk_idx,
    left_chunk, right_chunk,
    spec_left, spec_right, \* results of stft_.forward on the two chunks
    stem_specs,          \* inference_result.value(): stem_specs[s + 1] is stem s's .real
    stem_pos,            \* the next blend_chunk call of the loop body (0..5)
    error,               \* the ProcessingError returned, or "none"
    returned,            \* the SeparatedStems returned, or NoStems
    events,              \* history: the calls made so far, in order, each
                         \* <<call, chunk index, stem index or -1, whether it succeeded>>
    infer_log,           \* history: the engine output behind every stem list infer returned
    last_reads,          \* history: source indices read by the last extract_chunk
    last_writes,         \* history: destination indices written by the last blend_chunk
    covered,             \* history: covered[s] = indices of out[s] written with a non-zero weight
    fn_call,             \* the last direct call of a helper (FnSpec only)
    blended,             \* blended[s]: chunks blended into out[s] so far (ParSpec only)
    engine_out,          \* history: what the engine answered to the last infer call of process
    files,               \* what write_stems did with the returned stems, or NoFiles
    fftw_init,           \* how initialize_fftw ended when the StftProcessor was constructed
    exit_code,           \* the exit status of main, or "none"
    stages               \* the stages main has finished, each <<name, succeeded>>

vars == <<pc, plan_ok, audio, left, right, num_samples, num_chunks, out,
          num_detected_stems, chunk_idx, left_chunk, right_chunk, spec_left,
          spec_right, stem_specs, stem_pos, error, returned, events, infer_log,
          last_reads, last_writes, covered, fn_call, blended, engine_out, files,
          fftw_init, exit_code, stages>>

----------------------------------------------------------------------------
(* Bounds of the model.  The source fixes model_chunk_size = 343980,       *)
(* window_size = 4096 and hop_size = 1024; the model keeps every relation  *)
(* between the constants (overlap = chunk/20, step = chunk - overlap) and  *)
(* scales the sizes down so that whole runs can be enumerated.             *)

model_chunk_size == 40
window_size == 8
MaxSamples == 78        \* longest de-interleaved input: three chunks
MaxValue == 2           \* engine results carry the constants 1..MaxValue (times stem + 1)
ShortSamples == 3       \* a samples_per_stem shorter than the chunk
MaxFnLen == 4           \* longest buffer of a direct helper call
MaxFnOverlap == 3       \* largest overlap_size of a direct blend_chunk call

chunk_overlap == model_chunk_size \div 20
hop_size == window_size \div 4
fft_size == window_size
num_bins == fft_size \div 2

Stems == 0..5

----------------------------------------------------------------------------
(* Exact rationals.                                                        *)

Abs(x) == IF x < 0 THEN -x ELSE x

RECURSIVE GCD(_, _)
GCD(a, b) == IF b = 0 THEN a ELSE GCD(b, a % b)

Rat(n, d) == LET g == GCD(d, Abs(n)) IN <<n \div g, d \div g>>

Zero == <<0, 1>>
One == <<1, 1>>
\* the operands are bound to values once (x, y), so that an operand that is
\* itself a computation is not computed again at each of its occurrences
RAdd(a, b) ==
    CHOOSE r \in {Rat(x[1] * y[2] + y[1] * x[2], x[2] * y[2]) : x \in {a}, y \in {b}} : TRUE
RSub(a, b) ==
    CHOOSE r \in {Rat(x[1] * y[2] - y[1] * x[2], x[2] * y[2]) : x \in {a}, y \in {b}} : TRUE
RMul(a, b) ==
    CHOOSE r \in {Rat(x[1] * y[1], x[2] * y[2]) : x \in {a}, y \in {b}} : TRUE
RLe(a, b) == a[1] * b[2] <= b[1] * a[2]
RLt(a, b) == a[1] * b[2] < b[1] * a[2]
RMin(a, b) ==
    CHOOSE r \in {IF RLt(y, x) THEN y ELSE x : x \in {a}, y \in {b}} : TRUE
RAbs(a) == <<Abs(a[1]), a[2]>>

Min(a, b) == IF b < a THEN b ELSE a

Zeros(n) == [i \in 1..n |-> Zero]
Ramp(n, base) == [i \in 1..n |-> <<base + i, 1>>]

----------------------------------------------------------------------------
(* The helpers of the anonymous namespace.                                 *)

\* mutant: the channels are swapped
deinterleave_swapped(interleaved) ==
    LET n == Len(interleaved) \div 2
    IN  [left |-> [i \in 1..n |-> interleaved[2 * (i - 1) + 2]],
         right |-> [i \in 1..n |-> interleaved[2 * (i - 1) + 1]]]

deinterleave_stereo(interleaved) ==
    LET n == Len(interleaved) \div 2
    IN  [left |-> [i \in 1..n |-> interleaved[2 * (i - 1) + 1]],
         right |-> [i \in 1..n |-> interleaved[2 * (i - 1) + 2]]]

interleave_stereo(l, r) ==
    LET n == Len(l)
    IN  [i \in 1..(2 * n) |-> IF i % 2 = 1 THEN l[(i + 1) \div 2] ELSE r[i \div 2]]

\* what a read outside a vector yields: undefined in C++.  No read of the
\* model is outside (C8_ExtractChunk, C10_BlendFrame), so the value is never used.
OutOfBounds == <<-1, 1>>

ReadAt(a, p) == IF p < Len(a) THEN a[p + 1] ELSE OutOfBounds

\* mutant: the count is not clamped to what the source holds
AvailableUnclamped(size, offset, target_size) ==
    IF offset < size THEN target_size ELSE 0

\* available samples of extract_chunk
Available(size, offset, target_size) ==
    IF offset < size THEN Min(target_size, size - offset) ELSE 0

\* .chunk is the vector returned, .reads the source indices copy_n reads
extract_chunk(a, offset, target_size) ==
    LET available == Available(Len(a), offset, target_size)
    IN  [chunk |-> [i \in 1..target_size |->
                        IF i <= available THEN ReadAt(a, offset + i - 1) ELSE Zero],
         reads |-> {offset + i : i \in 0..(available - 1)}]

\* mutant: the fade-out weight replaces the weight instead of std::min
BlendWeightNoMin(i, chunk_size, overlap_size, is_first, is_last) ==
    LET w1 == IF ~is_first /\ i < overlap_size THEN Rat(i, overlap_size) ELSE One
        dist_from_end == chunk_size - i
    IN  IF ~is_last /\ dist_from_end <= overlap_size
        THEN Rat(dist_from_end, overlap_size)
        ELSE w1

\* mutant: the fade-in ramp starts one sample early
BlendWeightEarly(i, chunk_size, overlap_size, is_first, is_last) ==
    LET w1 == IF ~is_first /\ i < overlap_size THEN Rat(i + 1, overlap_size) ELSE One
        dist_from_end == chunk_size - i
    IN  IF ~is_last /\ dist_from_end <= overlap_size
        THEN RMin(w1, Rat(dist_from_end, overlap_size))
        ELSE w1

\* the weight of chunk sample i
BlendWeight(i, chunk_size, overlap_size, is_first, is_last) ==
    LET w0 == One
        w1 == IF ~is_first /\ i < overlap_size THEN Rat(i, overlap_size) ELSE w0
        dist_from_end == chunk_size - i
    IN  IF ~is_last /\ dist_from_end <= overlap_size
        THEN RMin(w1, Rat(dist_from_end, overlap_size))
        ELSE w1

\* mutant: the loop is not bounded by the output's size
BlendEndUnbounded(offset, chunk_size, output_size) == offset + chunk_size

\* the bound of the loop of blend_chunk
BlendEnd(offset, chunk_size, output_size) == Min(offset + chunk_size, output_size)

\* the loop condition: i < chunk_size and (offset + i) < end
Visits(output, chunk, offset, i) ==
    /\ 0 <= i
    /\ i < Len(chunk)
    /\ offset + i < BlendEnd(offset, Len(chunk), Len(output))

\* the chunk samples the loop of blend_chunk visits
BlendIndices(output, chunk, offset) ==
    {i \in 0..(Len(chunk) - 1) : Visits(output, chunk, offset, i)}

\* output[output_idx] after the loop body for chunk sample i
BlendSample(output, chunk, offset, overlap_size, is_first, is_last, i) ==
    LET weight == BlendWeight(i, Len(chunk), overlap_size, is_first, is_last)
    IN  RAdd(RMul(ReadAt(output, offset + i), RSub(One, weight)),
             RMul(chunk[i + 1], weight))

\* .out is the output vector after the call, .writes the indices assigned.
\* Iteration i of the loop reads and assigns output[offset + i] only, so the
\* loop is the element-wise update of the visited indices; an assignment to
\* an index outside the vector is recorded in .writes and changes no element.
blend_chunk(output, chunk, offset, overlap_size, is_first, is_last) ==
    [out |-> [p \in 1..Len(output) |->
                 IF Visits(output, chunk, offset, p - 1 - offset)
                 THEN BlendSample(output, chunk, offset, overlap_size, is_first,
                                  is_last, p - 1 - offset)
                 ELSE output[p]],
     writes |-> {offset + i : i \in BlendIndices(output, chunk, offset)}]

----------------------------------------------------------------------------
(* StftProcessor::forward, as far as process depends on it: its outcome    *)
(* and the shape of the Spectrogram.                                       *)

\* mutant: any segment that is not empty is accepted
is_valid_input_nonempty(size) == size # 0

is_valid_input(size) == size # 0 /\ size >= window_size

calculate_num_frames(signal_length) ==
    IF signal_length = 0 THEN 0 ELSE signal_length \div hop_size + 1

NoSpectrogram == [ok |-> FALSE, error |-> "none", num_frames |-> 0, num_bins |-> 0]

StftFailure(e) == [ok |-> FALSE, error |-> e, num_frames |-> 0, num_bins |-> 0]

forward(a, plan) ==
    IF ~is_valid_input(Len(a)) THEN StftFailure("InvalidInput")
    ELSE IF ~plan THEN StftFailure("PlanningFailed")
    ELSE IF calculate_num_frames(Len(a)) = 0 THEN StftFailure("InvalidInput")
    ELSE [ok |-> TRUE, error |-> "none",
          num_frames |-> calculate_num_frames(Len(a)), num_bins |-> num_bins]

----------------------------------------------------------------------------
(* The inference engine and OnnxModel::infer.  The engine is an opaque     *)
(* function: a call throws, or returns a time-domain tensor of shape       *)
(* [1, stems, 2, samples] whose element [0, s, c, i] the model takes to be *)
(* v * (s + 1) + 100 * c for a constant v the engine chooses per call.     *)

\* a well-shaped answer: two output tensors, the second of shape
\* [1, stems, 2, samples]
GoodResponses ==
    [threw : {FALSE}, outputs : {2}, rank : {4}, batch : {1}, channels : {2},
     stems : {4, 5, 6}, samples : {model_chunk_size, ShortSamples}, v : 1..MaxValue]

\* answers with one thing wrong: one output tensor only, a tensor of rank 3,
\* a batch of 2, a single channel
BadShapes ==
    [threw : {FALSE}, outputs : {1}, rank : {4}, batch : {1}, channels : {2},
     stems : {4}, samples : {model_chunk_size}, v : {1}]
    \cup [threw : {FALSE}, outputs : {2}, rank : {3}, batch : {1}, channels : {2},
          stems : {4}, samples : {model_chunk_size}, v : {1}]
    \cup [threw : {FALSE}, outputs : {2}, rank : {4}, batch : {2}, channels : {2},
          stems : {4}, samples : {model_chunk_size}, v : {1}]
    \cup [threw : {FALSE}, outputs : {2}, rank : {4}, batch : {1}, channels : {1},
          stems : {6}, samples : {model_chunk_size}, v : {1}]

\* session_->Run threw an Ort::Exception
Threw ==
    [threw |-> TRUE, outputs |-> 0, rank |-> 0, batch |-> 0, channels |-> 0,
     stems |-> 0, samples |-> 0, v |-> 0]

\* no infer call yet
NoResponse == [threw |-> FALSE, outputs |-> 0, rank |-> 0, batch |-> 0,
               channels |-> 0, stems |-> 0, samples |-> 0, v |-> 0]

EngineResponses == {Threw} \cup GoodResponses \cup BadShapes

EngineSample(resp, s, c) == <<resp.v * (s + 1) + 100 * c, 1>>

\* element k of the flat data of the time-domain tensor, indexed from 0 in
\* row-major order of [batch, stems, channels, samples]
TensorData(resp, k) ==
    EngineSample(resp, k \div (resp.channels * resp.samples),
                 (k \div resp.samples) % resp.channels)

\* mutant: the shape of the time-domain tensor is not looked at
ShapeAcceptedAlways(resp) == TRUE

\* lines 209-229: two output tensors, and shape [1, _, 2, _]
ShapeAccepted(resp) ==
    /\ ~(resp.outputs < 2)
    /\ ~(resp.rank # 4 \/ resp.batch # 1 \/ resp.channels # 2)

\* .ok and, when ok, .stems: the .real vector of every stem, in engine order
infer(resp) ==
    IF resp.threw THEN [ok |-> FALSE, stems |-> <<>>]
    ELSE IF ~ShapeAccepted(resp) THEN [ok |-> FALSE, stems |-> <<>>]
    ELSE IF resp.stems # 4 /\ resp.stems # 6 THEN [ok |-> FALSE, stems |-> <<>>]
    ELSE LET num_channels == resp.channels
             samples_per_stem == resp.samples
             StemReal(stem_idx) ==
                 LET stem_offset == stem_idx * num_channels * samples_per_stem
                     left_offset == stem_offset + 0 * samples_per_stem
                 IN  [i \in 1..samples_per_stem |-> TensorData(resp, left_offset + i - 1)]
         IN  [ok |-> TRUE, stems |-> [s \in 1..resp.stems |-> StemReal(s - 1)]]

----------------------------------------------------------------------------
(* StemProcessor::process.                                                 *)

step == model_chunk_size - chunk_overlap

\* mutant: the division rounds down
NumChunksFloor(n) == n \div step

NumChunks(n) == (n + step - 1) \div step

\* mutant: consecutive chunks abut instead of overlapping
OffsetNoOverlap(k) == k * model_chunk_size

Offset(k) == k * step
\* mutant: no chunk counts as the first
IsFirstNever(k) == FALSE

IsFirst(k) == k = 0
IsLast(k, n_chunks) == k = n_chunks - 1

\* indices of the destination a blend_chunk call assigns with a non-zero weight
NonZeroWrites(output_size, chunk_size, offset, overlap_size, is_first, is_last) ==
    {offset + i : i \in {j \in 0..(chunk_size - 1) :
        /\ offset + j < BlendEnd(offset, chunk_size, output_size)
        /\ BlendWeight(j, chunk_size, overlap_size, is_first, is_last) # Zero}}

NoCall == [fn |-> "none"]

\* write_stems has not been called
NoFiles == [called |-> FALSE, ok |-> FALSE, error |-> "none", written |-> <<>>]

Init ==
    /\ pc = "idle"
    /\ fftw_init \in {"ok", "alloc_failed", "plan_failed"}
    /\ plan_ok = (fftw_init = "ok")
    /\ audio = <<>>
    /\ left = <<>>
    /\ right = <<>>
    /\ num_samples = 0
    /\ num_chunks = 0
    /\ out = [s \in Stems |-> <<>>]
    /\ num_detected_stems = 0
    /\ chunk_idx = 0
    /\ left_chunk = <<>>
    /\ right_chunk = <<>>
    /\ spec_left = NoSpectrogram
    /\ spec_right = NoSpectrogram
    /\ stem_specs = <<>>
    /\ stem_pos = 0
    /\ error = "none"
    /\ returned = <<>>
    /\ events = <<>>
    /\ infer_log = <<>>
    /\ last_reads = {}
    /\ last_writes = {}
    /\ covered = [s \in Stems |-> {}]
    /\ fn_call = NoCall
    /\ blended = [s \in Stems |-> 0]
    /\ engine_out = NoResponse
    /\ files = NoFiles
    /\ exit_code = "none"
    /\ stages = <<>>

\* mutant: the error is dropped and the loop goes on
FailIgnored(e) ==
    /\ pc' = "loop"
    /\ UNCHANGED error

\* return std::unexpected(e)
Fail(e) ==
    /\ pc' = "failed"
    /\ error' = e

\* lines 97-131: the channel check, de-interleaving, the chunking parameters
\* and the six zero-filled output buffers
Process(a, channels) ==
    /\ pc = "idle"
    /\ audio' = a
    /\ IF channels # 2
       THEN /\ Fail("InvalidAudio")
            /\ UNCHANGED <<left, right, num_samples, num_chunks, out>>
       ELSE /\ left' = deinterleave_stereo(a).left
            /\ right' = deinterleave_stereo(a).right
            /\ num_samples' = Len(deinterleave_stereo(a).left)
            /\ num_chunks' = NumChunks(Len(deinterleave_stereo(a).left))
            /\ out' = [s \in Stems |-> Zeros(Len(deinterleave_stereo(a).left))]
            /\ pc' = "loop"
            /\ UNCHANGED error
    /\ UNCHANGED <<plan_ok, num_detected_stems, chunk_idx, left_chunk, right_chunk,
                   spec_left, spec_right, stem_specs, stem_pos, returned, events,
                   infer_log, last_reads, last_writes, covered, fn_call, blended, engine_out, files,
                   fftw_init, exit_code, stages>>

\* lines 134-144: the loop test and the two extract_chunk calls
ExtractChunks ==
    /\ pc = "loop"
    /\ chunk_idx < num_chunks
    /\ left_chunk' = extract_chunk(left, Offset(chunk_idx), model_chunk_size).chunk
    /\ right_chunk' = extract_chunk(right, Offset(chunk_idx), model_chunk_size).chunk
    /\ last_reads' = extract_chunk(left, Offset(chunk_idx), model_chunk_size).reads
                     \cup extract_chunk(right, Offset(chunk_idx), model_chunk_size).reads
    /\ events' = Append(events, <<"extract", chunk_idx, -1, TRUE>>)
    /\ pc' = "stft"
    /\ UNCHANGED <<plan_ok, audio, left, right, num_samples, num_chunks, out,
                   num_detected_stems, chunk_idx, spec_left, spec_right, stem_specs,
                   stem_pos, error, returned, infer_log, last_writes, covered,
                   fn_call, blended, engine_out, files,
                   fftw_init, exit_code, stages>>

\* lines 146-157: both forward transforms, then the check of both results
Forward ==
    /\ pc = "stft"
    /\ spec_left' = forward(left_chunk, plan_ok)
    /\ spec_right' = forward(right_chunk, plan_ok)
    /\ events' = Append(events, <<"stft", chunk_idx, -1,
                                  forward(left_chunk, plan_ok).ok
                                  /\ forward(right_chunk, plan_ok).ok>>)
    /\ IF ~forward(left_chunk, plan_ok).ok \/ ~forward(right_chunk, plan_ok).ok
       THEN Fail("StftFailed")
       ELSE pc' = "infer" /\ UNCHANGED error
    /\ UNCHANGED <<plan_ok, audio, left, right, num_samples, num_chunks, out,
                   num_detected_stems, chunk_idx, left_chunk, right_chunk, stem_specs,
                   stem_pos, returned, infer_log, last_reads, last_writes, covered,
                   fn_call, blended, engine_out, files,
                   fftw_init, exit_code, stages>>

\* lines 159-165: the engine is invoked and answers resp
Infer(resp) ==
    /\ pc = "infer"
    /\ engine_out' = resp
    /\ events' = Append(events, <<"infer", chunk_idx, -1, infer(resp).ok>>)
    /\ IF ~infer(resp).ok
       THEN /\ Fail("InferenceFailed")
            /\ UNCHANGED <<stem_specs, infer_log>>
       ELSE /\ stem_specs' = infer(resp).stems
            /\ infer_log' = Append(infer_log, resp)
            /\ pc' = "detect"
            /\ UNCHANGED error
    /\ UNCHANGED <<plan_ok, audio, left, right, num_samples, num_chunks, out,
                   num_detected_stems, chunk_idx, left_chunk, right_chunk, spec_left,
                   spec_right, stem_pos, returned, last_reads, last_writes, covered,
                   fn_call, blended, files,
                   fftw_init, exit_code, stages>>

\* mutant: the count is taken from every chunk
DetectedStemsEveryChunk(k, detected, size) == size

\* num_detected_stems after lines 168-175
DetectedStems(k, detected, size) == IF k = 0 THEN size ELSE detected

\* lines 167-182: detection on the first chunk, then the consistency check
DetectStems ==
    /\ pc = "detect"
    /\ num_detected_stems' = DetectedStems(chunk_idx, num_detected_stems, Len(stem_specs))
    /\ IF chunk_idx = 0 /\ Len(stem_specs) # 4 /\ Len(stem_specs) # 6
       THEN Fail("OutputGenerationFailed")
       ELSE IF Len(stem_specs) # num_detected_stems'
       THEN Fail("OutputGenerationFailed")
       ELSE pc' = "blend" /\ UNCHANGED error
    /\ stem_pos' = 0
    /\ UNCHANGED <<plan_ok, audio, left, right, num_samples, num_chunks, out,
                   chunk_idx, left_chunk, right_chunk, spec_left, spec_right,
                   stem_specs, returned, events, infer_log, last_reads, last_writes,
                   covered, fn_call, blended, engine_out, files,
                   fftw_init, exit_code, stages>>

\* mutant: the loop body ends after the fourth stem of a 6-stem result too
LastBlendOfChunkFour(s, detected) == s = 3

\* whether the blend of stem s is the last call of the loop body
LastBlendOfChunk(s, detected) == IF detected = 6 THEN s = 5 ELSE s = 3

\* lines 186-196: one blend_chunk call; after the last one, ++chunk_idx
BlendStem ==
    /\ pc = "blend"
    /\ LET s == stem_pos
           res == blend_chunk(out[s], stem_specs[s + 1], Offset(chunk_idx),
                              chunk_overlap, IsFirst(chunk_idx),
                              IsLast(chunk_idx, num_chunks))
       IN  /\ out' = [out EXCEPT ![s] = res.out]
           /\ last_writes' = res.writes
           /\ covered' = [covered EXCEPT ![s] = @ \cup
                  NonZeroWrites(Len(out[s]), Len(stem_specs[s + 1]), Offset(chunk_idx),
                                chunk_overlap, IsFirst(chunk_idx),
                                IsLast(chunk_idx, num_chunks))]
           /\ events' = Append(events, <<"blend", chunk_idx, s, TRUE>>)
           /\ IF LastBlendOfChunk(s, num_detected_stems)
              THEN /\ chunk_idx' = chunk_idx + 1
                   /\ stem_pos' = 0
                   /\ pc' = "loop"
              ELSE /\ stem_pos' = s + 1
                   /\ UNCHANGED <<chunk_idx, pc>>
    /\ UNCHANGED <<plan_ok, audio, left, right, num_samples, num_chunks,
                   num_detected_stems, left_chunk, right_chunk, spec_left, spec_right,
                   stem_specs, error, returned, infer_log, last_reads, fn_call, blended, engine_out, files,
                   fftw_init, exit_code, stages>>

\* the SeparatedStems of lines 208-215
SeparatedStems(o, detected) ==
    [s \in Stems |-> IF s < 4 \/ detected = 6
                     THEN interleave_stereo(o[s], o[s])
                     ELSE <<>>]

\* lines 198-215: the loop has ended
Finish ==
    /\ pc = "loop"
    /\ ~(chunk_idx < num_chunks)
    /\ returned' = <<SeparatedStems(out, num_detected_stems)>>
    /\ pc' = "done"
    /\ UNCHANGED <<plan_ok, audio, left, right, num_samples, num_chunks, out,
                   num_detected_stems, chunk_idx, left_chunk, right_chunk, spec_left,
                   spec_right, stem_specs, stem_pos, error, events, infer_log,
                   last_reads, last_writes, covered, fn_call, blended, engine_out, files,
                   fftw_init, exit_code, stages>>

\* the names of the engine's stems, in the engine's order
stem_names_6 == <<"drums", "bass", "other", "vocals", "guitar", "piano">>

\* separation::stem_name(index, num_stems), as write_stems calls it
stem_name(index, n) == IF index < n THEN stem_names_6[index + 1] ELSE "unknown"

\* separation::stem_index(name, num_stems): the first index holding the name,
\* or num_stems when there is none
stem_index(name, n) ==
    IF \E i \in 0..(n - 1) : stem_names_6[i + 1] = name
    THEN CHOOSE i \in 0..(n - 1) :
             /\ stem_names_6[i + 1] = name
             /\ \A j \in 0..(i - 1) : stem_names_6[j + 1] # name
    ELSE n

\* A std::filesystem::path is its directory and its file name, the file name
\* a sequence of characters; a stem name appended to it is one element.
\* the base path main passes to write_stems: the input file
BasePath == [dir |-> "music", filename |-> <<"song", ".", "wav">>]

\* path::has_filename
has_filename(path) == path.filename # <<>>

\* the position of the rightmost period of a file name, 0 without one
LastPeriod(filename) ==
    IF \E i \in 1..Len(filename) : filename[i] = "."
    THEN CHOOSE i \in 1..Len(filename) :
             /\ filename[i] = "."
             /\ \A j \in (i + 1)..Len(filename) : filename[j] # "."
    ELSE 0

\* mutant: the whole file name taken as the stem
ExtensionStartNone(filename) == Len(filename) + 1

\* where path::extension starts: at the rightmost period, unless the file
\* name is dot or dot-dot or that period is its first character; past the end
\* of the file name when there is no extension
ExtensionStart(filename) ==
    IF filename = <<".">> \/ filename = <<".", ".">> \/ LastPeriod(filename) <= 1
    THEN Len(filename) + 1
    ELSE LastPeriod(filename)

\* path::stem and path::extension
path_stem(path) == SubSeq(path.filename, 1, ExtensionStart(path.filename) - 1)
path_extension(path) ==
    SubSeq(path.filename, ExtensionStart(path.filename), Len(path.filename))

\* make_stem_path: replace_filename(<stem>_<stem name><extension>), the
\* directory kept
make_stem_path(base_path, name) ==
    [dir |-> base_path.dir,
     filename |-> path_stem(base_path) \o <<"_", name>> \o path_extension(base_path)]

\* mutant: the order of an older writer, vocals first
StemFilesVocalsFirst(stems, n) ==
    <<<<stem_name(3, n), stems[0]>>, <<stem_name(0, n), stems[1]>>,
      <<stem_name(1, n), stems[2]>>, <<stem_name(2, n), stems[3]>>,
      <<stem_name(4, n), stems[4]>>, <<stem_name(5, n), stems[5]>>>>

\* the vector stem_files of write_stems: name and data of every stem
StemFiles(stems, n) ==
    <<<<stem_name(0, n), stems[0]>>, <<stem_name(1, n), stems[1]>>,
      <<stem_name(2, n), stems[2]>>, <<stem_name(3, n), stems[3]>>,
      <<stem_name(4, n), stems[4]>>, <<stem_name(5, n), stems[5]>>>>

\* the loop of write_stems from index i on: empty stems are skipped, and the
\* first write_wav_file that fails (the one of index fail_at) ends the call
RECURSIVE WriteLoop(_, _, _, _, _, _)
WriteLoop(base_path, stem_files, i, n, fail_at, written) ==
    IF ~(i < n) THEN [called |-> TRUE, ok |-> TRUE, error |-> "none", written |-> written]
    ELSE IF stem_files[i + 1][2] = <<>>
    THEN WriteLoop(base_path, stem_files, i + 1, n, fail_at, written)
    ELSE IF i = fail_at
    THEN [called |-> TRUE, ok |-> FALSE, error |-> "FileCreationFailed", written |-> written]
    ELSE WriteLoop(base_path, stem_files, i + 1, n, fail_at,
                   Append(written, <<make_stem_path(base_path, stem_files[i + 1][1]),
                                     stem_files[i + 1][2]>>))

\* write_stems: .ok and .written, the files written in order, each
\* <<path, samples>>
write_stems(base_path, stems, fail_at) ==
    IF ~has_filename(base_path)
    THEN [called |-> TRUE, ok |-> FALSE, error |-> "InvalidPath", written |-> <<>>]
    ELSE LET n == IF stems[4] = <<>> THEN 4 ELSE 6
         IN  WriteLoop(base_path, StemFiles(stems, n), 0, n, fail_at, <<>>)

\* the index of the write_wav_file call that fails: the first, the first of
\* the two additional stems, or none (6)
FailAt == {0, 4, 6}

\* main hands the stems process returned to write_stems
WriteStems(fail_at) ==
    /\ pc = "done"
    /\ files = NoFiles
    /\ files' = write_stems(BasePath, returned[1], fail_at)
    /\ UNCHANGED <<pc, plan_ok, audio, left, right, num_samples, num_chunks, out,
                   num_detected_stems, chunk_idx, left_chunk, right_chunk, spec_left,
                   spec_right, stem_specs, stem_pos, error, returned, events,
                   infer_log, last_reads, last_writes, covered, fn_call, blended,
                   engine_out,
                   fftw_init, exit_code, stages>>

\* the interleaved stereo inputs of the model: sample p holds p + 1
Inputs == {Ramp(2 * n, 0) : n \in 0..MaxSamples}

Next ==
    \/ \E a \in Inputs, channels \in {1, 2} : Process(a, channels)
    \/ ExtractChunks
    \/ Forward
    \/ \E resp \in EngineResponses : Infer(resp)
    \/ DetectStems
    \/ BlendStem
    \/ Finish
    \/ \E fail_at \in FailAt : WriteStems(fail_at)

Spec == Init /\ [][Next]_vars

----------------------------------------------------------------------------
(* Direct calls of the helpers, with arguments drawn from small sets: the  *)
(* specification FnSpec applies extract_chunk and blend_chunk to every     *)
(* combination of buffer length, offset, overlap and chunk position,       *)
(* including those process never passes.  The helpers keep no state, so a  *)
(* behaviour of FnSpec is one call.                                        *)

FnInit ==
    /\ Init
    /\ plan_ok = TRUE

\* extract_chunk(audio, offset, target_size) on a buffer holding 1, 2, 3, ...
CallExtractChunk(len, offset, target_size) ==
    /\ fn_call = NoCall
    /\ fn_call' = [fn |-> "extract_chunk",
                   audio |-> Ramp(len, 0),
                   offset |-> offset,
                   target_size |-> target_size,
                   res |-> extract_chunk(Ramp(len, 0), offset, target_size)]
    /\ UNCHANGED <<pc, plan_ok, audio, left, right, num_samples, num_chunks, out,
                   num_detected_stems, chunk_idx, left_chunk, right_chunk, spec_left,
                   spec_right, stem_specs, stem_pos, error, returned, events,
                   infer_log, last_reads, last_writes, covered, blended, engine_out, files,
                   fftw_init, exit_code, stages>>

\* blend_chunk(output, chunk, ...) on an output holding 11, 12, ... and a
\* chunk holding 1, 2, ...
CallBlendChunk(out_len, chunk_len, offset, overlap_size, is_first, is_last) ==
    /\ fn_call = NoCall
    /\ fn_call' = [fn |-> "blend_chunk",
                   output |-> Ramp(out_len, 10),
                   chunk |-> Ramp(chunk_len, 0),
                   offset |-> offset,
                   overlap_size |-> overlap_size,
                   is_first |-> is_first,
                   is_last |-> is_last,
                   res |-> blend_chunk(Ramp(out_len, 10), Ramp(chunk_len, 0), offset,
                                       overlap_size, is_first, is_last)]
    /\ UNCHANGED <<pc, plan_ok, audio, left, right, num_samples, num_chunks, out,
                   num_detected_stems, chunk_idx, left_chunk, right_chunk, spec_left,
                   spec_right, stem_specs, stem_pos, error, returned, events,
                   infer_log, last_reads, last_writes, covered, blended, engine_out, files,
                   fftw_init, exit_code, stages>>

\* deinterleave_stereo on a vector holding 1, 2, 3, ..., and interleave_stereo
\* on its result
CallDeinterleave(len) ==
    /\ fn_call = NoCall
    /\ fn_call' = [fn |-> "deinterleave_stereo",
                   interleaved |-> Ramp(len, 0),
                   res |-> deinterleave_stereo(Ramp(len, 0)),
                   back |-> interleave_stereo(deinterleave_stereo(Ramp(len, 0)).left,
                                              deinterleave_stereo(Ramp(len, 0)).right)]
    /\ UNCHANGED <<pc, plan_ok, audio, left, right, num_samples, num_chunks, out,
                   num_detected_stems, chunk_idx, left_chunk, right_chunk, spec_left,
                   spec_right, stem_specs, stem_pos, error, returned, events,
                   infer_log, last_reads, last_writes, covered, blended, engine_out,
                   files, fftw_init, exit_code, stages>>

FnNext ==
    \/ \E len \in 0..(2 * MaxFnLen + 1) : CallDeinterleave(len)
    \/ \E len \in 0..MaxFnLen, offset \in 0..(MaxFnLen + 1), target_size \in 0..MaxFnLen :
          CallExtractChunk(len, offset, target_size)
    \/ \E out_len \in 0..MaxFnLen, chunk_len \in 0..MaxFnLen, offset \in 0..(MaxFnLen + 1),
          overlap_size \in 0..MaxFnOverlap, is_first \in BOOLEAN, is_last \in BOOLEAN :
          CallBlendChunk(out_len, chunk_len, offset, overlap_size, is_first, is_last)

FnSpec == FnInit /\ [][FnNext]_vars

----------------------------------------------------------------------------
(* Claims about the helpers, checked under FnSpec.                         *)

\* the weight the specification gives chunk sample i
ClaimWeight(i, chunk_length, overlap_size, is_first, is_last) ==
    LET fade_in == ~is_first /\ i < overlap_size
        fade_out == ~is_last /\ chunk_length - i <= overlap_size
    IN  CASE fade_in /\ fade_out ->
                 RMin(Rat(i, overlap_size), Rat(chunk_length - i, overlap_size))
          [] fade_in /\ ~fade_out -> Rat(i, overlap_size)
          [] ~fade_in /\ fade_out -> Rat(chunk_length - i, overlap_size)
          [] OTHER -> One

\* C3: every chunk sample i that lands inside the output is blended as
\* output[offset+i] = output[offset+i]*(1 - weight) + chunk[i]*weight, where
\* weight is 1 by default, i/overlap on the fade-in of a chunk that is not the
\* first, (chunk_length - i)/overlap on the fade-out of a chunk that is not the
\* last, the minimum of the two when both apply, and always within [0, 1].
C3_BlendWeights ==
    fn_call.fn = "blend_chunk" =>
        \A i \in 0..(Len(fn_call.chunk) - 1) :
            fn_call.offset + i < Len(fn_call.output) =>
                LET w == ClaimWeight(i, Len(fn_call.chunk), fn_call.overlap_size,
                                     fn_call.is_first, fn_call.is_last)
                IN  /\ RLe(Zero, w) /\ RLe(w, One)
                    /\ (fn_call.is_first /\ fn_call.is_last => w = One)
                    /\ fn_call.res.out[fn_call.offset + i + 1] =
                           RAdd(RMul(fn_call.output[fn_call.offset + i + 1], RSub(One, w)),
                                RMul(fn_call.chunk[i + 1], w))

\* a call in which a sample inside the output is both in the fade-in and in
\* the fade-out, and the two ramps give different weights
C3_Witness ==
    /\ fn_call.fn = "blend_chunk"
    /\ ~fn_call.is_first /\ ~fn_call.is_last
    /\ \E i \in 0..(Len(fn_call.chunk) - 1) :
          /\ fn_call.offset + i < Len(fn_call.output)
          /\ i < fn_call.overlap_size
          /\ Len(fn_call.chunk) - i <= fn_call.overlap_size
          /\ Rat(i, fn_call.overlap_size) # Rat(Len(fn_call.chunk) - i, fn_call.overlap_size)
          /\ fn_call.res.out[fn_call.offset + i + 1] # fn_call.output[fn_call.offset + i + 1]

\* C8: extract_chunk returns exactly target_size samples, element i being
\* source[offset+i] when offset+i is inside the source and 0 otherwise, and
\* reads no index outside the source.
C8_ExtractChunk ==
    fn_call.fn = "extract_chunk" =>
        /\ Len(fn_call.res.chunk) = fn_call.target_size
        /\ \A i \in 0..(fn_call.target_size - 1) :
              fn_call.res.chunk[i + 1] =
                  IF fn_call.offset + i < Len(fn_call.audio)
                  THEN fn_call.audio[fn_call.offset + i + 1]
                  ELSE Zero
        /\ fn_call.res.reads \subseteq 0..(Len(fn_call.audio) - 1)

\* a chunk that starts inside the source and ends past it: samples at the
\* head, zeros at the tail
C8_Witness ==
    /\ fn_call.fn = "extract_chunk"
    /\ 0 < fn_call.offset
    /\ fn_call.offset < Len(fn_call.audio)
    /\ fn_call.offset + fn_call.target_size > Len(fn_call.audio)
    /\ fn_call.res.chunk[1] # Zero
    /\ fn_call.res.chunk[fn_call.target_size] = Zero

\* C10: blend_chunk assigns no index at or past the output's size, keeps the
\* output's size, and leaves every sample outside
\* [offset, min(offset + chunk_length, size)) as it was.
C10_BlendFrame ==
    fn_call.fn = "blend_chunk" =>
        /\ fn_call.res.writes \subseteq 0..(Len(fn_call.output) - 1)
        /\ Len(fn_call.res.out) = Len(fn_call.output)
        /\ \A p \in 0..(Len(fn_call.output) - 1) :
              (p < fn_call.offset
               \/ p >= Min(fn_call.offset + Len(fn_call.chunk), Len(fn_call.output)))
                  => fn_call.res.out[p + 1] = fn_call.output[p + 1]

\* a chunk that starts inside the output and would end past it: samples
\* before the offset are kept, the last sample of the output is written
C10_Witness ==
    /\ fn_call.fn = "blend_chunk"
    /\ 0 < fn_call.offset
    /\ fn_call.offset < Len(fn_call.output)
    /\ fn_call.offset + Len(fn_call.chunk) > Len(fn_call.output)
    /\ fn_call.is_first /\ fn_call.is_last
    /\ (Len(fn_call.output) - 1) \in fn_call.res.writes
    /\ fn_call.res.out[Len(fn_call.output)] # fn_call.output[Len(fn_call.output)]

----------------------------------------------------------------------------
(* Claims about StemProcessor::process, checked under Spec.                *)

\* process got past the channel check and set up its buffers
Running == pc # "idle" /\ error # "InvalidAudio"

\* the blend of chunk k into stem s has been made
BlendDone(k, s) == \E i \in 1..Len(events) : events[i] = <<"blend", k, s, TRUE>>

\* chunk indices of the calls of one kind made so far
ChunksOf(call) == {events[i][2] : i \in {j \in 1..Len(events) : events[j][1] = call}}

\* how many calls of one kind were made for chunk k
CallCount(call, k) ==
    Cardinality({i \in 1..Len(events) : events[i][1] = call /\ events[i][2] = k})

\* the engine returned chunk_size samples per stem for chunk k (0-based)
FullLength(k) == infer_log[k + 1].samples = model_chunk_size

\* the constant stem s carries in the engine's result for chunk k
StemValue(k, s) == EngineSample(infer_log[k + 1], s, 0)

\* the buffers process returns: the first four always, guitar and piano
\* for a 6-stem result
ActiveStems == IF num_detected_stems = 6 THEN 0..5 ELSE 0..3

\* C1: with step = chunk_size - overlap and num_chunks = ceil(n / step), the
\* ranges [k*step, k*step + chunk_size) of the chunks 0..num_chunks-1, and on a
\* finished run the ranges of the chunks actually extracted, contain every
\* index of [0, n).
C1_ChunkCoverage ==
    Running =>
        /\ \A p \in 0..(num_samples - 1) :
              \E k \in 0..(num_chunks - 1) :
                  Offset(k) <= p /\ p < Offset(k) + model_chunk_size
        /\ pc = "done" =>
              \A p \in 0..(num_samples - 1) :
                  \E k \in ChunksOf("extract") :
                      /\ Offset(k) <= p /\ p < Offset(k) + model_chunk_size
                      /\ k < num_chunks

\* a finished run over three chunks
C1_Witness ==
    /\ pc = "done"
    /\ num_chunks = 3
    /\ ChunksOf("extract") = {0, 1, 2}
    /\ num_samples > Offset(2)

\* C2: once chunks k and k+1 are both blended into a stem, the sample at
\* distance j < overlap from the start of chunk k+1 equals
\* A*(1 - j/overlap) + B*(j/overlap) for the values A, B the two chunks carry
\* there; and when every chunk carries the same constant c, every sample of a
\* finished run equals c.
C2_OverlapAdd ==
    /\ \A s \in Stems, k \in 0..(num_chunks - 2) :
          (BlendDone(k, s) /\ BlendDone(k + 1, s) /\ FullLength(k) /\ FullLength(k + 1)) =>
              \A j \in 0..(chunk_overlap - 1) :
                  Offset(k + 1) + j < num_samples =>
                      out[s][Offset(k + 1) + j + 1] =
                          RAdd(RMul(StemValue(k, s), RSub(One, Rat(j, chunk_overlap))),
                               RMul(StemValue(k + 1, s), Rat(j, chunk_overlap)))
    /\ (/\ pc = "done"
        /\ \A k \in 0..(num_chunks - 1) : FullLength(k) /\ infer_log[k + 1].v = infer_log[1].v)
          => \A s \in ActiveStems, p \in 0..(num_samples - 1) :
                 out[s][p + 1] = StemValue(0, s)

\* C4: for two consecutive blended chunks carrying the constants A and B, the
\* sample just before chunk k+1's start offset equals the sample at that
\* offset, and the last sample of the overlap region differs from the first
\* sample after it by at most (|A| + |B|)/overlap.
C4_BlendContinuity ==
    \A s \in Stems, k \in 0..(num_chunks - 2) :
        (BlendDone(k, s) /\ BlendDone(k + 1, s) /\ FullLength(k) /\ FullLength(k + 1)) =>
            /\ Offset(k + 1) < num_samples =>
                  out[s][Offset(k + 1)] = out[s][Offset(k + 1) + 1]
            /\ Offset(k + 1) + chunk_overlap < num_samples =>
                  RLe(RAbs(RSub(out[s][Offset(k + 1) + chunk_overlap],
                                out[s][Offset(k + 1) + chunk_overlap + 1])),
                      RMul(RAdd(RAbs(StemValue(k, s)), RAbs(StemValue(k + 1, s))),
                           Rat(1, chunk_overlap)))

\* two consecutive chunks with different constants, blended into a buffer
\* that reaches past their overlap region
C4_Witness ==
    /\ num_chunks >= 2
    /\ BlendDone(0, 3) /\ BlendDone(1, 3)
    /\ FullLength(0) /\ FullLength(1)
    /\ StemValue(0, 3) # StemValue(1, 3)
    /\ Offset(1) + chunk_overlap < num_samples
    /\ out[3][Offset(1) + chunk_overlap] # out[3][Offset(1) + chunk_overlap + 1]

\* the i-th call of a run whose results have d stems: per chunk, extract,
\* forward, infer, then the blends of the stems 0..d-1
CanonicalCall(i, d) ==
    LET k == (i - 1) \div (3 + d)
        r == (i - 1) % (3 + d)
    IN  CASE r = 0 -> <<"extract", k, -1>>
          [] r = 1 -> <<"stft", k, -1>>
          [] r = 2 -> <<"infer", k, -1>>
          [] OTHER -> <<"blend", k, r - 3>>

C5_Order ==
    /\ \A i \in 1..Len(events) :
          <<events[i][1], events[i][2], events[i][3]>> =
              CanonicalCall(i, IF num_detected_stems = 0 THEN 4 ELSE num_detected_stems)
    /\ pc = "done" =>
          /\ ChunksOf("infer") = 0..(num_chunks - 1)
          /\ \A k \in 0..(num_chunks - 1) : CallCount("infer", k) = 1
          /\ Len(infer_log) = num_chunks

\* C5: the calls of a run are made in the order extract, forward, infer,
\* blend of every stem, chunk after chunk in increasing offset order; a
\* successful run has invoked the engine exactly once per chunk; and every run
\* terminates: a run that has not returned can take a step, and every step
\* but the entry and the return adds one call to a list that never holds more
\* than 3 + 6 calls per chunk.
C5_Sequential ==
    /\ C5_Order
    /\ pc \notin {"done", "failed"} => ENABLED Next
    /\ Len(events) <= (3 + 6) * num_chunks
    /\ pc \in {"idle", "done", "failed", "loop", "stft", "infer", "detect", "blend"}

\* a finished 6-stem run over three chunks
C5_Witness ==
    /\ pc = "done"
    /\ num_chunks = 3
    /\ num_detected_stems = 6
    /\ Len(events) = 3 * 9

\* C6: the stem count is the one of chunk 0's result and never another; a
\* later chunk whose result has a different count ends the run with
\* OutputGenerationFailed at that chunk, with no blend of it and no stems
\* returned.
C6_StemCount ==
    /\ num_detected_stems # 0 =>
          /\ Len(infer_log) >= 1
          /\ num_detected_stems = infer_log[1].stems
    /\ (pc \in {"blend", "loop", "done"} /\ Len(infer_log) >= 1) =>
          num_detected_stems = infer_log[1].stems
    /\ \A k \in 1..(Len(infer_log) - 1) :
          infer_log[k + 1].stems # infer_log[1].stems =>
              /\ k = Len(infer_log) - 1
              /\ chunk_idx = k
              /\ CallCount("blend", k) = 0
              /\ returned = <<>>
              /\ \/ pc = "detect"
                 \/ pc = "failed" /\ error = "OutputGenerationFailed"

\* chunk 0 reported 4 stems, chunk 1 reports 6: the run has failed, the
\* buffers hold chunk 0 only
C6_Witness ==
    /\ pc = "failed"
    /\ error = "OutputGenerationFailed"
    /\ Len(infer_log) = 2
    /\ infer_log[1].stems = 4
    /\ infer_log[2].stems = 6
    /\ num_detected_stems = 4

\* C7: a failed forward or infer call is the last call of the run: process
\* has returned StftFailed or InferenceFailed and no stems, the failed chunk
\* was tried once, nothing of it or of a later chunk was blended, and a failed
\* run takes no further step.
C7_FailureAborts ==
    /\ \A i \in 1..Len(events) :
          ~events[i][4] =>
              /\ i = Len(events)
              /\ pc = "failed"
              /\ error = (IF events[i][1] = "stft" THEN "StftFailed" ELSE "InferenceFailed")
              /\ returned = <<>>
              /\ events[i][2] = chunk_idx
              /\ \A c \in {"extract", "stft", "infer", "blend"} :
                    /\ \A k \in ChunksOf(c) : k <= chunk_idx
                    /\ CallCount(c, chunk_idx) = (IF c = "blend" THEN 0 ELSE
                                                  IF c = "infer" /\ events[i][1] = "stft"
                                                  THEN 0 ELSE 1)
    /\ pc = "failed" => ~ENABLED Next
    /\ pc = "failed" => returned = <<>>

\* the engine fails on the second chunk: the first chunk is in the buffers,
\* and nothing is returned
C7_Witness ==
    /\ pc = "failed"
    /\ error = "InferenceFailed"
    /\ chunk_idx = 1
    /\ out[0][1] # Zero
    /\ returned = <<>>

\* C9 as stated: every one of the six buffers is created zero-filled with
\* num_samples samples, keeps that length, is returned by a successful run
\* with num_samples samples per channel, and, when the engine returned
\* chunk_size samples per stem for every chunk, has every index written by
\* some chunk with a non-zero weight.
C9_AllBuffersReturned ==
    Running =>
        /\ \A s \in Stems : Len(out[s]) = num_samples
        /\ Len(events) = 0 => \A s \in Stems : out[s] = Zeros(num_samples)
        /\ pc = "done" =>
              /\ \A s \in Stems : Len(returned[1][s]) = 2 * num_samples
              /\ (\A k \in 0..(num_chunks - 1) : FullLength(k)) =>
                    \A s \in Stems : covered[s] = 0..(num_samples - 1)

\* C9, amended: all six buffers are created zero-filled with num_samples
\* samples and keep that length; a successful run returns the first four, and
\* guitar and piano for a 6-stem result, with num_samples samples per channel,
\* and returns guitar and piano empty otherwise; and when the engine returned
\* chunk_size samples per stem for every chunk, every index of a returned
\* buffer was written by some chunk with a non-zero weight.
C9_StemBuffers ==
    Running =>
        /\ \A s \in Stems : Len(out[s]) = num_samples
        /\ Len(events) = 0 => \A s \in Stems : out[s] = Zeros(num_samples)
        /\ pc = "done" =>
              /\ \A s \in ActiveStems :
                    /\ Len(returned[1][s]) = 2 * num_samples
                    /\ \A p \in 0..(num_samples - 1) :
                          /\ returned[1][s][2 * p + 1] = out[s][p + 1]
                          /\ returned[1][s][2 * p + 2] = out[s][p + 1]
              /\ \A s \in Stems \ ActiveStems : returned[1][s] = <<>>
              /\ (\A k \in 0..(num_chunks - 1) : FullLength(k)) =>
                    \A s \in ActiveStems : covered[s] = 0..(num_samples - 1)

\* a finished 4-stem run over two full-length chunks
C9_Witness ==
    /\ pc = "done"
    /\ num_detected_stems = 4
    /\ num_chunks = 2
    /\ FullLength(0) /\ FullLength(1)
    /\ Len(returned[1][3]) = 2 * num_samples
    /\ returned[1][4] = <<>>

----------------------------------------------------------------------------
(* Blends of different stems taken in any order: ParSpec starts from the   *)
(* buffers of process and the engine results of every chunk, and blends    *)
(* the next chunk of any stem that has one left, so that every             *)
(* interleaving that keeps each stem's chunks in order is a behaviour.     *)

ParLens == 3            \* ParSpec runs over the ParLens + 1 longest inputs

\* mutant: every call passes drums_out as its destination
BlendIntoDrums(o, s, chunk, k, n_chunks) ==
    [o EXCEPT ![0] = blend_chunk(o[0], chunk, Offset(k), chunk_overlap,
                                 IsFirst(k), IsLast(k, n_chunks)).out]

\* the buffers after blend_chunk(<stem s>_out, chunk, offset, overlap, is_first, is_last);
\* appending the empty sequence makes the vector a sequence value whose
\* elements are computed once
BlendInto(o, s, chunk, k, n_chunks) ==
    [o EXCEPT ![s] = blend_chunk(o[s], chunk, Offset(k), chunk_overlap,
                                 IsFirst(k), IsLast(k, n_chunks)).out \o <<>>]

\* the engine's answer for chunk k of a d-stem run: full length, constant k + 1
ParResult(k, d) ==
    [threw |-> FALSE, outputs |-> 2, rank |-> 4, batch |-> 1, channels |-> 2,
     stems |-> d, samples |-> model_chunk_size, v |-> k + 1]

\* the buffers process holds after c whole chunks and the first m blends of
\* chunk c, in the order of lines 186-195
RECURSIVE SequentialOut(_, _, _, _)
SequentialOut(n, d, c, m) ==
    IF c = 0 /\ m = 0 THEN [s \in Stems |-> Zeros(n)]
    ELSE IF m = 0 THEN SequentialOut(n, d, c - 1, d)
    ELSE CHOOSE r \in {BlendInto(o, m - 1, infer(ParResult(c, d)).stems[m], c,
                                 NumChunks(n)) : o \in {SequentialOut(n, d, c, m - 1)}} : TRUE

ParInit ==
    /\ Init
    /\ plan_ok = TRUE

\* lines 111-131 and the engine results of a run of d stems
ParStart(n, d) ==
    /\ pc = "idle"
    /\ num_samples' = n
    /\ num_chunks' = NumChunks(n)
    /\ out' = [s \in Stems |-> Zeros(n)]
    /\ num_detected_stems' = d
    /\ infer_log' = [k \in 1..NumChunks(n) |-> ParResult(k - 1, d)]
    /\ pc' = "par"
    /\ UNCHANGED <<plan_ok, audio, left, right, chunk_idx, left_chunk, right_chunk,
                   spec_left, spec_right, stem_specs, stem_pos, error, returned,
                   events, last_reads, last_writes, covered, fn_call, blended, engine_out, files,
                   fftw_init, exit_code, stages>>

\* the next blend of stem s, whatever the other stems have reached
ParBlend(s) ==
    /\ pc = "par"
    /\ s < num_detected_stems
    /\ blended[s] < num_chunks
    /\ out' = BlendInto(out, s, infer(infer_log[blended[s] + 1]).stems[s + 1],
                        blended[s], num_chunks)
    /\ blended' = [blended EXCEPT ![s] = @ + 1]
    /\ UNCHANGED <<pc, plan_ok, audio, left, right, num_samples, num_chunks,
                   num_detected_stems, chunk_idx, left_chunk, right_chunk, spec_left,
                   spec_right, stem_specs, stem_pos, error, returned, events,
                   infer_log, last_reads, last_writes, covered, fn_call, engine_out, files,
                   fftw_init, exit_code, stages>>

ParNext ==
    \/ \E n \in (MaxSamples - ParLens)..MaxSamples, d \in {4, 6} : ParStart(n, d)
    \/ \E s \in Stems : ParBlend(s)

ParSpec == ParInit /\ [][ParNext]_vars

\* C11: a blend into one stem's buffer leaves every other stem's buffer as it
\* was, and once every stem has had all its chunks blended, in whatever
\* interleaving, the buffers are those of the sequential order of process.
C11_StemIndependence ==
    /\ [][\A s \in Stems : blended'[s] = blended[s] /\ pc = "par" => out'[s] = out[s]]_vars
    /\ []((/\ pc = "par"
           /\ \A s \in Stems : s < num_detected_stems => blended[s] = num_chunks)
              => out = SequentialOut(num_samples, num_detected_stems, num_chunks, 0))

\* an interleaving process never takes: the last stem of a three-chunk 6-stem
\* run has all its chunks blended before the first stem has any
C11_Witness ==
    /\ pc = "par"
    /\ num_chunks = 3
    /\ num_detected_stems = 6
    /\ blended[5] = 3
    /\ blended[0] = 0
    /\ out[0] = Zeros(num_samples)
    /\ out[5] = SequentialOut(num_samples, 6, 3, 0)[5]

----------------------------------------------------------------------------
(* Claims about the engine boundary inside process, checked under Spec.    *)

\* the engine results the specification accepts
ClaimAccepts(resp) ==
    /\ ~resp.threw
    /\ resp.outputs >= 2
    /\ resp.rank = 4
    /\ resp.batch = 1
    /\ resp.channels = 2
    /\ resp.stems \in {4, 6}

\* the stem list process held before the last infer call
StemSpecsBefore ==
    IF Len(infer_log) = 0 THEN <<>> ELSE infer(infer_log[Len(infer_log)]).stems

\* C16: an engine result is accepted only with two output tensors and a
\* time-domain tensor of rank 4, batch 1, 2 channels and 4 or 6 stems; for
\* any other result infer fails, no stem list replaces the one process held,
\* and process returns InferenceFailed and no stems.
C16_OutputShape ==
    /\ \A k \in 1..Len(infer_log) : ClaimAccepts(infer_log[k])
    /\ (Len(events) > 0 /\ events[Len(events)][1] = "infer") =>
          IF ClaimAccepts(engine_out)
          THEN /\ events[Len(events)][4]
               /\ error # "InferenceFailed"
               /\ infer_log[Len(infer_log)] = engine_out
               /\ Len(stem_specs) = engine_out.stems
          ELSE /\ ~events[Len(events)][4]
               /\ pc = "failed"
               /\ error = "InferenceFailed"
               /\ returned = <<>>
               /\ stem_specs = StemSpecsBefore

\* the second chunk's result has a batch of 2: the run has failed, the stem
\* list is still the first chunk's
C16_Witness ==
    /\ pc = "failed"
    /\ error = "InferenceFailed"
    /\ chunk_idx = 1
    /\ ~engine_out.threw
    /\ engine_out.batch = 2
    /\ engine_out.stems = 4
    /\ Len(stem_specs) = 4

\* C15: channel c of stem s is the engine output elements
\* [s*2*S + c*S, s*2*S + (c+1)*S), so in a run of one full-length chunk (every
\* weight is 1) the left samples of every returned stem are the engine's
\* channel 0 of that stem and the right samples are its channel 1.
C15_BothChannels ==
    (pc = "done" /\ num_chunks = 1 /\ FullLength(0)) =>
        \A s \in ActiveStems, p \in 0..(num_samples - 1) :
            /\ returned[1][s][2 * p + 1] =
                   TensorData(infer_log[1], s * 2 * model_chunk_size + p)
            /\ returned[1][s][2 * p + 2] =
                   TensorData(infer_log[1], s * 2 * model_chunk_size + model_chunk_size + p)

----------------------------------------------------------------------------
(* The stem order, from the engine's tensor to the files written.          *)

\* the order the engine's documentation fixes
ProtocolOrder == <<"drums", "bass", "other", "vocals", "guitar", "piano">>

\* what the chunks 0..c-1 of the engine's stem k blend to
RECURSIVE EngineBlend(_, _)
EngineBlend(k, c) ==
    IF c = 0 THEN Zeros(num_samples)
    ELSE CHOOSE r \in
             {blend_chunk(o, [i \in 1..infer_log[c].samples |->
                                  EngineSample(infer_log[c], k, 0)],
                          Offset(c - 1), chunk_overlap, IsFirst(c - 1),
                          IsLast(c - 1, num_chunks)).out \o <<>> :
                  o \in {EngineBlend(k, c - 1)}} : TRUE

----------------------------------------------------------------------------
(* The input half of OnnxModel::infer: the two tensors handed to the       *)
(* engine.  The specification InferSpec calls infer directly, on channels  *)
(* and Spectrograms drawn from small sets, the Spectrograms including ones *)
(* whose component arrays do not have num_bins * num_frames elements.      *)
(* Inside process the Spectrograms are results of forward and always have. *)

MaxAudio == 3
MaxFrames == 3
MaxBins == 2

\* a Spectrogram of the given shape; element j (from 0) of the real array of
\* channel side holds 1000 * (2 * side + 1) + j, of the imag array
\* 1000 * (2 * side + 2) + j.  In a Spectrogram forward builds, j is
\* frame * num_bins + bin.
TaggedSpectrogram(side, n_frames, n_bins, real_len, imag_len) ==
    [num_frames |-> n_frames, num_bins |-> n_bins,
     real |-> [j \in 1..real_len |-> <<1000 * (2 * side + 1) + j - 1, 1>>],
     imag |-> [j \in 1..imag_len |-> <<1000 * (2 * side + 2) + j - 1, 1>>]]

\* mutant: left and right samples alternate
WaveformAtInterleaved(audio_left, audio_right, p) ==
    IF p % 2 = 0 THEN ReadAt(audio_left, p \div 2) ELSE ReadAt(audio_right, p \div 2)

\* lines 113-117: element p (from 0) of waveform_data
WaveformAt(audio_left, audio_right, p) ==
    IF p < Len(audio_left) THEN ReadAt(audio_left, p)
    ELSE ReadAt(audio_right, p - Len(audio_left))

\* mutant: only the left real array is measured
SizesMatchLeftOnly(spec_l, spec_r, spec_size) ==
    ~(Len(spec_l.real) # spec_size)

\* lines 135-136: the negation of the mismatch test
SizesMatch(spec_l, spec_r, spec_size) ==
    ~(\/ Len(spec_l.real) # spec_size
      \/ Len(spec_l.imag) # spec_size
      \/ Len(spec_r.real) # spec_size
      \/ Len(spec_r.imag) # spec_size)

\* lines 103-163: the waveform tensor, the size check and the spectral
\* tensor.  .copied holds the indices of spectrogram_data the four std::copy
\* calls write; spectrogram_data is <<>> when it was never allocated.
pack(audio_left, audio_right, spec_l, spec_r) ==
    LET n_samples == Len(audio_left)
        n_frames == spec_l.num_frames
        n_bins == spec_l.num_bins
        spec_size == n_bins * n_frames
        components == <<spec_l.real, spec_l.imag, spec_r.real, spec_r.imag>>
        Covering(p) == {c \in 0..3 : /\ c * spec_size <= p
                                     /\ p < c * spec_size + Len(components[c + 1])}
        LastCovering(p) == CHOOSE c \in Covering(p) : \A d \in Covering(p) : d <= c
        waveform_data == [p \in 1..(2 * n_samples) |->
                              WaveformAt(audio_left, audio_right, p - 1)]
        waveform_shape == <<1, 2, n_samples>>
    IN  IF ~SizesMatch(spec_l, spec_r, spec_size)
        THEN [ok |-> FALSE, waveform_data |-> waveform_data,
              waveform_shape |-> waveform_shape, spectrogram_data |-> <<>>,
              spec_shape |-> <<>>, copied |-> {}]
        ELSE [ok |-> TRUE, waveform_data |-> waveform_data,
              waveform_shape |-> waveform_shape,
              spectrogram_data |->
                  [p \in 1..(4 * spec_size) |->
                      IF Covering(p - 1) = {} THEN Zero
                      ELSE components[LastCovering(p - 1) + 1]
                                     [p - 1 - LastCovering(p - 1) * spec_size + 1]],
              spec_shape |-> <<1, 4, n_bins, n_frames>>,
              copied |-> UNION {{c * spec_size + j :
                                     j \in 0..(Len(components[c + 1]) - 1)} :
                                c \in 0..3}]

\* the whole of infer on the engine answer resp: .packed the tensors built,
\* .engine_called whether session_->Run was reached, .res the result
infer_call(audio_left, audio_right, spec_l, spec_r, resp) ==
    LET packed == pack(audio_left, audio_right, spec_l, spec_r)
    IN  [fn |-> "infer",
         audio_left |-> audio_left,
         audio_right |-> audio_right,
         spec_left |-> spec_l,
         spec_right |-> spec_r,
         packed |-> packed,
         engine_called |-> packed.ok,
         res |-> IF packed.ok THEN infer(resp) ELSE [ok |-> FALSE, stems |-> <<>>],
         error |-> IF packed.ok /\ infer(resp).ok THEN "none" ELSE "InferenceFailed"]

\* the length of one component array: spec_size, or one off when the array
\* is the one picked by which (1..4) and off is not 0
ComponentLen(spec_size, which, off, c) ==
    IF which = c /\ spec_size + off >= 0 THEN spec_size + off ELSE spec_size

\* one call of infer: channels of n samples, Spectrograms of n_frames frames
\* and n_bins bins, the component array which (1..4, 0 for none) one element
\* longer or shorter than num_bins * num_frames
CallInfer(n, n_frames, n_bins, which, off, resp) ==
    /\ fn_call = NoCall
    /\ fn_call' = infer_call(
           Ramp(n, 0), Ramp(n, 100),
           TaggedSpectrogram(0, n_frames, n_bins,
                             ComponentLen(n_bins * n_frames, which, off, 1),
                             ComponentLen(n_bins * n_frames, which, off, 2)),
           TaggedSpectrogram(1, n_frames, n_bins,
                             ComponentLen(n_bins * n_frames, which, off, 3),
                             ComponentLen(n_bins * n_frames, which, off, 4)),
           resp)
    /\ UNCHANGED <<pc, plan_ok, audio, left, right, num_samples, num_chunks, out,
                   num_detected_stems, chunk_idx, left_chunk, right_chunk, spec_left,
                   spec_right, stem_specs, stem_pos, error, returned, events,
                   infer_log, last_reads, last_writes, covered, blended, engine_out,
                   files,
                   fftw_init, exit_code, stages>>

\* the engine answers of InferSpec: an exception, a bad shape, a 4-stem and a
\* 6-stem tensor of ShortSamples samples per channel
InferResponses ==
    {Threw}
    \cup {r \in BadShapes : r.batch = 2}
    \cup {r \in GoodResponses : r.samples = ShortSamples /\ r.v = 1 /\ r.stems # 5}

InferNext ==
    \E n \in 1..MaxAudio, n_frames \in 1..MaxFrames, n_bins \in 1..MaxBins,
       which \in 0..4, off \in {-1, 1}, resp \in InferResponses :
        CallInfer(n, n_frames, n_bins, which, off, resp)

InferSpec == FnInit /\ [][InferNext]_vars

\* C12: the spectral tensor has shape [1, 4, num_bins, num_frames]; its
\* element [0, c, b, f], at flat index c*num_bins*num_frames + b*num_frames + f,
\* holds component c (real left, imag left, real right, imag right) of the
\* coefficient the input Spectrogram stores for frame f and bin b, at index
\* f*num_bins + b.
C12_SpectralLayout ==
    (fn_call.fn = "infer" /\ fn_call.packed.ok) =>
        LET n_frames == fn_call.spec_left.num_frames
            n_bins == fn_call.spec_left.num_bins
            components == <<fn_call.spec_left.real, fn_call.spec_left.imag,
                            fn_call.spec_right.real, fn_call.spec_right.imag>>
        IN  /\ fn_call.packed.spec_shape = <<1, 4, n_bins, n_frames>>
            /\ Len(fn_call.packed.spectrogram_data) = 4 * n_bins * n_frames
            /\ \A c \in 0..3, b \in 0..(n_bins - 1), f \in 0..(n_frames - 1) :
                  fn_call.packed.spectrogram_data
                      [c * n_bins * n_frames + b * n_frames + f + 1]
                  = components[c + 1][f * n_bins + b + 1]

Mismatch ==
    LET spec_size == fn_call.spec_left.num_bins * fn_call.spec_left.num_frames
    IN  \/ Len(fn_call.spec_left.real) # spec_size
        \/ Len(fn_call.spec_left.imag) # spec_size
        \/ Len(fn_call.spec_right.real) # spec_size
        \/ Len(fn_call.spec_right.imag) # spec_size

\* C14: infer checks that each of the four component arrays has exactly
\* num_bins * num_frames elements before it copies any of them; when one
\* differs it returns InferenceFailed with nothing copied and the engine not
\* invoked, so no copy writes past the 4 * num_bins * num_frames elements of
\* the tensor storage; when none differs the copies fill the storage.
C14_SizeCheck ==
    fn_call.fn = "infer" =>
        LET spec_size == fn_call.spec_left.num_bins * fn_call.spec_left.num_frames
        IN  /\ Mismatch =>
                  /\ ~fn_call.res.ok
                  /\ fn_call.error = "InferenceFailed"
                  /\ fn_call.packed.copied = {}
                  /\ fn_call.packed.spectrogram_data = <<>>
                  /\ ~fn_call.engine_called
            /\ fn_call.packed.copied \subseteq 0..(4 * spec_size - 1)
            /\ ~Mismatch =>
                  /\ fn_call.packed.copied = 0..(4 * spec_size - 1)
                  /\ fn_call.engine_called

\* the right imag array is one element longer than the 3 * 2 elements of
\* the shape, and the call failed
C14_Witness ==
    /\ fn_call.fn = "infer"
    /\ fn_call.spec_left.num_frames = 3
    /\ fn_call.spec_left.num_bins = 2
    /\ Len(fn_call.spec_left.real) = 6
    /\ Len(fn_call.spec_right.imag) = 7
    /\ fn_call.error = "InferenceFailed"
    /\ ~fn_call.engine_called

----------------------------------------------------------------------------
(* StftProcessor::forward in full: the framing, the transform and the      *)
(* layout of the Spectrogram.  The Hann window and the transform are kept  *)
(* symbolic: a windowed sample is the pair of the sample and the window    *)
(* position, a coefficient the triple of its part, its bin and the frame   *)
(* the transform was executed on.  The specification StftSpec calls        *)
(* forward up to MaxCalls times on one engine, on segments of 0 to         *)
(* MaxStftLen samples holding 1, 2, 3, ...                                 *)

MaxStftLen == 11
MaxCalls == 2

pad_size == window_size \div 2

\* audio[audio_idx] * window_[i], for the sample sample = audio[audio_idx]
Windowed(sample, i) == <<sample[1], i + 1>>

\* 0.0f in fftw_input_
FedZero == <<0, 0>>

\* fftw_input_ before the first frame was ever written: indeterminate
Indeterminate == [i \in 1..window_size |-> <<-1, -1>>]

\* line 130
StartPos(frame_idx) ==
    LET center_pos == frame_idx * hop_size
    IN  IF center_pos > pad_size THEN center_pos - pad_size ELSE 0

\* lines 133-144: what the loop stores in fftw_input_[i] for one frame
FftwInput(a, frame_idx, i) ==
    LET padded_pos == StartPos(frame_idx) + i
        audio_idx == IF padded_pos >= pad_size THEN padded_pos - pad_size ELSE 0
    IN  IF padded_pos < pad_size \/ audio_idx >= Len(a)
        THEN FedZero
        ELSE Windowed(a[audio_idx + 1], i)

\* the frame the transform of frame_idx is executed on
Frame(a, frame_idx) == [i \in 1..window_size |-> FftwInput(a, frame_idx, i - 1)]

\* fftw_output_[bin][part] after fftwf_execute on a frame
FftwOutput(frame, bin, part) == <<part, bin, frame>>

\* mutant: the stride of a header with fft_size / 2 + 1 bins
SpecIdxOldStride(frame_idx, bin) == frame_idx * (num_bins + 1) + bin

\* line 151
SpecIdx(frame_idx, bin) == frame_idx * num_bins + bin

\* lines 116-154: one component array (part 0 real, part 1 imag) of the
\* Spectrogram: zero-initialised, then written at SpecIdx(frame_idx, bin) in
\* the order of the two loops
Component(a, n_frames, part) ==
    [j \in 1..(n_frames * num_bins) |->
        LET W == {fb \in (0..(n_frames - 1)) \X (0..(num_bins - 1)) :
                      SpecIdx(fb[1], fb[2]) = j - 1}
            last == CHOOSE fb \in W : \A o \in W :
                        o[1] < fb[1] \/ (o[1] = fb[1] /\ o[2] <= fb[2])
        IN  IF W = {} THEN Zero
            ELSE FftwOutput(Frame(a, last[1]), last[2], part)]

\* the complex values a real transform of size fft_size writes (r2c) or
\* reads (c2r)
RealTransformBins == fft_size \div 2 + 1

\* forward on the segment a by an engine whose plan and buffers are usable
\* or not and whose input buffer holds scratch: .res is the shape result of
\* forward, .real and .imag the component arrays (<<>> when no Spectrogram is
\* built), .frames the frames the transform ran on, .fftw_input the input
\* buffer afterwards, .resource_ops the allocations, frees and plan calls
\* made, .real_accessed and .complex_accessed the indices of fftw_input_ and
\* fftw_output_ the loop and the transform touch, next to the capacities the
\* buffers were allocated with
forward_call(a, plan, scratch) ==
    LET res == forward(a, plan)
    IN  IF ~res.ok
        THEN [fn |-> "forward", audio |-> a, plan |-> plan, res |-> res,
              real |-> <<>>, imag |-> <<>>, frames |-> <<>>, fftw_input |-> scratch,
              resource_ops |-> <<>>,
              real_capacity |-> fft_size, real_accessed |-> {},
              complex_capacity |-> num_bins, complex_accessed |-> {}]
        ELSE [fn |-> "forward", audio |-> a, plan |-> plan, res |-> res,
              real |-> Component(a, res.num_frames, 0),
              imag |-> Component(a, res.num_frames, 1),
              frames |-> [f \in 1..res.num_frames |-> Frame(a, f - 1)],
              fftw_input |-> Frame(a, res.num_frames - 1),
              resource_ops |-> <<>>,
              real_capacity |-> fft_size,
              real_accessed |-> 0..(fft_size - 1),
              complex_capacity |-> num_bins,
              complex_accessed |-> 0..(RealTransformBins - 1)]

\* one call of forward on a segment of n samples; the call is logged with
\* the length of its segment in the place of the chunk index
CallForward(n) ==
    /\ Len(events) < MaxCalls
    /\ fn_call' = forward_call(Ramp(n, 0), plan_ok,
                               IF fn_call = NoCall THEN Indeterminate
                               ELSE fn_call.fftw_input)
    /\ events' = Append(events, <<"forward", n, -1, forward(Ramp(n, 0), plan_ok).ok>>)
    /\ UNCHANGED <<pc, plan_ok, audio, left, right, num_samples, num_chunks, out,
                   num_detected_stems, chunk_idx, left_chunk, right_chunk, spec_left,
                   spec_right, stem_specs, stem_pos, error, returned,
                   infer_log, last_reads, last_writes, covered, blended, engine_out,
                   files,
                   fftw_init, exit_code, stages>>

\* a Spectrogram value: the shape and the two component arrays
Spectrogram(n_frames, n_bins, re, im) ==
    [num_frames |-> n_frames, num_bins |-> n_bins, real |-> re, imag |-> im]

\* the Spectrogram a successful forward call returned
SpectrogramOf(call) ==
    Spectrogram(call.res.num_frames, call.res.num_bins, call.real, call.imag)

\* a Spectrogram made by hand: n_frames frames of n_bins bins, frame f the
\* transform of a frame holding <<100 + f, 1>>, <<100 + f, 2>>, ...
HandMade(n_frames, n_bins) ==
    LET fr(f) == [i \in 1..window_size |-> <<100 + f, i>>]
    IN  Spectrogram(n_frames, n_bins,
                    [j \in 1..(n_frames * n_bins) |->
                        FftwOutput(fr((j - 1) \div n_bins), (j - 1) % n_bins, 0)],
                    [j \in 1..(n_frames * n_bins) |->
                        FftwOutput(fr((j - 1) \div n_bins), (j - 1) % n_bins, 1)])

\* the outcomes of the allocations and of the planning of one inverse call
InverseResources == {"ok", "no_input", "no_output", "no_plan"}

\* spec.real[spec_idx] or spec.imag[spec_idx]; a read past the end of the
\* array yields an unknown value
CoefficientAt(component, spec_idx) ==
    IF spec_idx < Len(component) THEN component[spec_idx + 1] ELSE <<-1, -1, <<>>>>

\* output_buf[i] * fft_scale after the complex-to-real transform of the bins
\* of frame frame_idx: when the bins copied are the transform of one frame,
\* that frame's value at i (the transform taken as exact); otherwise unknown
OutputBuf(spec, frame_idx, i) ==
    LET re == [b \in 0..(num_bins - 1) |-> CoefficientAt(spec.real, frame_idx * num_bins + b)]
        im == [b \in 0..(num_bins - 1) |-> CoefficientAt(spec.imag, frame_idx * num_bins + b)]
        fr == re[0][3]
    IN  IF \A b \in 0..(num_bins - 1) :
               re[b] = FftwOutput(fr, b, 0) /\ im[b] = FftwOutput(fr, b, 1)
        THEN fr[i + 1]
        ELSE <<-2, -2>>

\* lines 201-224: what is added to output[out_idx], frame after frame: each
\* term <<v, i>> stands for v * window_[i], added to output[out_idx] while
\* window_[i] * window_[i] is added to window_sum[out_idx]; the final
\* division leaves the sum of the terms over the sum of the squares
OutputTerms(spec, out_idx, output_length) ==
    LET covering == {f \in 0..(spec.num_frames - 1) :
                         /\ f * hop_size <= out_idx
                         /\ out_idx - f * hop_size < window_size
                         /\ out_idx < output_length}
    IN  {<<OutputBuf(spec, f, out_idx - f * hop_size), out_idx - f * hop_size>> :
             f \in covering}

\* mutant: the bin count is not compared
InverseRejectsNoFrames(spec) == spec.num_frames = 0

\* line 164
InverseRejects(spec) == spec.num_frames = 0 \/ spec.num_bins # num_bins

\* lines 168-169
OutputLength(n_frames) == (n_frames - 1) * hop_size + window_size

\* inverse on spec by an engine whose input buffer holds scratch, the
\* allocations and the planning of the call ending as resources says:
\* .res.ok and .res.error, .output the vector returned (<<>> when none),
\* .resource_ops the allocations, frees and plan calls made, in order, and
\* the buffer accesses as for forward_call.  .audio is the segment the
\* Spectrogram was made from, kept for reference.
inverse_call(spec, source, resources, scratch) ==
    LET base == [fn |-> "inverse", audio |-> source, spec |-> spec,
                 fftw_input |-> scratch,
                 real_capacity |-> fft_size, complex_capacity |-> num_bins]
        failed(e, ops) ==
            base @@
            [res |-> [ok |-> FALSE, error |-> e], output |-> <<>>,
             resource_ops |-> ops, real_accessed |-> {}, complex_accessed |-> {}]
    IN  IF InverseRejects(spec)
        THEN failed("InvalidInput", <<>>)
        ELSE IF resources = "no_input"
        THEN failed("AllocationFailed",
                    <<"alloc_complex_failed", "alloc_real", "free_real">>)
        ELSE IF resources = "no_output"
        THEN failed("AllocationFailed",
                    <<"alloc_complex", "alloc_real_failed", "free_complex">>)
        ELSE IF resources = "no_plan"
        THEN failed("PlanningFailed",
                    <<"alloc_complex", "alloc_real", "create_plan_failed",
                      "free_complex", "free_real">>)
        ELSE base @@
             [res |-> [ok |-> TRUE, error |-> "none"],
              output |-> [j \in 1..OutputLength(spec.num_frames) |->
                              OutputTerms(spec, j - 1, OutputLength(spec.num_frames))],
              resource_ops |-> <<"alloc_complex", "alloc_real", "create_plan",
                                 "free_complex", "free_real", "destroy_plan">>,
              real_accessed |-> 0..(fft_size - 1),
              complex_accessed |-> 0..(RealTransformBins - 1)]

\* one call of inverse, on the Spectrogram the last forward call returned
CallInverseOfForward(resources) ==
    /\ Len(events) < MaxCalls
    /\ fn_call.fn = "forward"
    /\ fn_call.res.ok
    /\ fn_call' = inverse_call(SpectrogramOf(fn_call), fn_call.audio, resources,
                               fn_call.fftw_input)
    /\ events' = Append(events, <<"inverse", fn_call.res.num_frames, -1,
                                  resources = "ok">>)
    /\ UNCHANGED <<pc, plan_ok, audio, left, right, num_samples, num_chunks, out,
                   num_detected_stems, chunk_idx, left_chunk, right_chunk, spec_left,
                   spec_right, stem_specs, stem_pos, error, returned,
                   infer_log, last_reads, last_writes, covered, blended, engine_out,
                   files, fftw_init, exit_code, stages>>

\* one call of inverse, on a Spectrogram made by hand
CallInverse(n_frames, n_bins, resources) ==
    /\ Len(events) < MaxCalls
    /\ fn_call' = inverse_call(HandMade(n_frames, n_bins), <<>>, resources,
                               IF fn_call = NoCall THEN Indeterminate
                               ELSE fn_call.fftw_input)
    /\ events' = Append(events,
           <<"inverse", n_frames, -1,
             inverse_call(HandMade(n_frames, n_bins), <<>>, resources, <<>>).res.ok>>)
    /\ UNCHANGED <<pc, plan_ok, audio, left, right, num_samples, num_chunks, out,
                   num_detected_stems, chunk_idx, left_chunk, right_chunk, spec_left,
                   spec_right, stem_specs, stem_pos, error, returned,
                   infer_log, last_reads, last_writes, covered, blended, engine_out,
                   files, fftw_init, exit_code, stages>>

\* the frame counts of the Spectrograms made by hand
MaxHandFrames == 2

StftNext ==
    \/ \E n \in 0..MaxStftLen : CallForward(n)
    \/ \E resources \in InverseResources : CallInverseOfForward(resources)
    \/ \E n_frames \in 0..MaxHandFrames, n_bins \in {num_bins - 1, num_bins, num_bins + 1},
          resources \in InverseResources : CallInverse(n_frames, n_bins, resources)

StftSpec == Init /\ [][StftNext]_vars

\* C18: forward uses centered framing: for every frame f and window position
\* i the value fed to the transform is audio[f*hop_size + i - window_size/2]
\* * window[i] when that index lies in [0, signal_length) and 0 otherwise, so
\* that frame f is centered on sample f*hop_size and consecutive frames are
\* exactly hop_size samples apart.
C18_CenteredFraming ==
    (fn_call.fn = "forward" /\ fn_call.res.ok) =>
        /\ Len(fn_call.frames) = fn_call.res.num_frames
        /\ \A f \in 0..(fn_call.res.num_frames - 1), i \in 0..(window_size - 1) :
              LET idx == f * hop_size + i - window_size \div 2
              IN  fn_call.frames[f + 1][i + 1] =
                      IF 0 <= idx /\ idx < Len(fn_call.audio)
                      THEN Windowed(fn_call.audio[idx + 1], i)
                      ELSE FedZero

\* C19: a Spectrogram forward returns for a segment of n samples has
\* num_bins = fft_size / 2 bins, floor(n / hop_size) + 1 frames and real and
\* imaginary arrays of exactly num_frames * num_bins elements, the
\* coefficient of frame f and bin b, the output of the transform executed on
\* frame f, stored at index f * num_bins + b.
C19_SpectrogramShape ==
    (fn_call.fn = "forward" /\ fn_call.res.ok) =>
        LET n == Len(fn_call.audio)
            n_frames == fn_call.res.num_frames
        IN  /\ fn_call.res.num_bins = fft_size \div 2
            /\ n_frames = n \div hop_size + 1
            /\ Len(fn_call.real) = n_frames * fn_call.res.num_bins
            /\ Len(fn_call.imag) = n_frames * fn_call.res.num_bins
            /\ \A f \in 0..(n_frames - 1), b \in 0..(fn_call.res.num_bins - 1) :
                  /\ fn_call.real[f * fn_call.res.num_bins + b + 1]
                         = FftwOutput(fn_call.frames[f + 1], b, 0)
                  /\ fn_call.imag[f * fn_call.res.num_bins + b + 1]
                         = FftwOutput(fn_call.frames[f + 1], b, 1)

\* the Spectrogram of an 11-sample segment: 6 frames of 4 bins
C19_Witness ==
    /\ fn_call.fn = "forward"
    /\ fn_call.res.ok
    /\ Len(fn_call.audio) = MaxStftLen
    /\ fn_call.res.num_frames = MaxStftLen \div hop_size + 1
    /\ Len(fn_call.real) = fn_call.res.num_frames * num_bins
    /\ fn_call.real[num_bins + 2][2] = 1

\* C20: forward returns InvalidInput for an empty segment and for every
\* segment shorter than window_size, whether or not the plan is usable; for a
\* segment of window_size samples or more and a usable plan it succeeds with
\* at least one frame.  A failed call builds no Spectrogram and leaves the
\* engine as it was: the plan and the input buffer are untouched, and a later
\* call on a long enough segment succeeds.
C20_ForwardErrors ==
    /\ [][fn_call'.fn = "forward" =>
            /\ plan_ok' = plan_ok
            /\ (Len(fn_call'.audio) < window_size) =>
                  /\ ~fn_call'.res.ok
                  /\ fn_call'.res.error = "InvalidInput"
            /\ (Len(fn_call'.audio) >= window_size /\ plan_ok) =>
                  /\ fn_call'.res.ok
                  /\ fn_call'.res.error = "none"
                  /\ fn_call'.res.num_frames >= 1
                  /\ Len(fn_call'.frames) = fn_call'.res.num_frames
            /\ ~fn_call'.res.ok =>
                  /\ fn_call'.res.error \in {"InvalidInput", "PlanningFailed"}
                  /\ fn_call'.res.num_frames = 0
                  /\ fn_call'.real = <<>>
                  /\ fn_call'.imag = <<>>
                  /\ fn_call'.frames = <<>>
                  /\ fn_call'.fftw_input = IF fn_call = NoCall THEN Indeterminate
                                           ELSE fn_call.fftw_input]_vars
    /\ [](\A k \in 1..Len(events) :
             (events[k][1] = "forward" /\ plan_ok /\ events[k][2] >= window_size)
                 => events[k][4])

\* a call on a 3-sample segment failed, and the next call, on a segment of
\* window_size samples, succeeded
C20_Witness ==
    /\ plan_ok
    /\ Len(events) = 2
    /\ events[1] = <<"forward", 3, -1, FALSE>>
    /\ fn_call.fn = "forward"
    /\ Len(fn_call.audio) = window_size
    /\ fn_call.res.ok
    /\ fn_call.res.num_frames = window_size \div hop_size + 1

----------------------------------------------------------------------------
(* Claims about StftProcessor::inverse and the engine's resources, checked *)
(* under StftSpec.                                                         *)

\* C21: inverse returns InvalidInput, before it allocates anything or reads
\* the spectrogram data, whenever the Spectrogram's num_bins differs from the
\* engine's bin count or num_frames is 0; otherwise it does not, and the
\* output it returns has (num_frames - 1) * hop_size + window_size samples.
C21_InverseInvalidInput ==
    fn_call.fn = "inverse" =>
        IF fn_call.spec.num_bins # fft_size \div 2 \/ fn_call.spec.num_frames = 0
        THEN /\ ~fn_call.res.ok
             /\ fn_call.res.error = "InvalidInput"
             /\ fn_call.resource_ops = <<>>
             /\ fn_call.complex_accessed = {}
             /\ fn_call.real_accessed = {}
             /\ fn_call.output = <<>>
        ELSE /\ fn_call.res.error # "InvalidInput"
             /\ fn_call.res.ok =>
                   Len(fn_call.output) =
                       (fn_call.spec.num_frames - 1) * hop_size + window_size

\* a Spectrogram of two frames with one bin too many was rejected
C21_Witness ==
    /\ fn_call.fn = "inverse"
    /\ fn_call.spec.num_frames = 2
    /\ fn_call.spec.num_bins = num_bins + 1
    /\ Len(fn_call.spec.real) = 2 * (num_bins + 1)
    /\ fn_call.res.error = "InvalidInput"

\* output sample out_idx of the last inverse call equals sample: every term
\* added to it with a window coefficient other than 0 (the Hann window is 0
\* at its two ends) is sample * window_[i], so that the sum of the terms over
\* the sum of the squared coefficients is sample
Reconstructs(out_idx, sample) ==
    LET terms == {t \in fn_call.output[out_idx + 1] :
                      t[2] # 0 /\ t[2] # window_size - 1}
    IN  /\ terms # {}
        /\ \A t \in terms : t[1] = Windowed(sample, t[2])

\* C22: for a signal x longer than one window, inverse(forward(x))
\* reconstructs x sample for sample, output sample j being input sample j,
\* everywhere except the first and the last half-window.
C22_RoundTrip ==
    (/\ fn_call.fn = "inverse"
     /\ fn_call.res.ok
     /\ Len(fn_call.audio) > window_size) =>
        /\ Len(fn_call.output) >= Len(fn_call.audio)
        /\ \A j \in (window_size \div 2)..(Len(fn_call.audio) - window_size \div 2 - 1) :
              Reconstructs(j, fn_call.audio[j + 1])

\* C23: plans and scratch buffers are acquired when the engine is
\* constructed and released when it is destroyed: no forward or inverse call
\* creates or destroys a plan or allocates or frees a scratch buffer; every
\* call reuses the cached pair of its direction.
C23_PlansCached ==
    fn_call.fn \in {"forward", "inverse"} => fn_call.resource_ops = <<>>

\* C24: resource failures are reported by kind: a forward or inverse call
\* reports AllocationFailed when a scratch buffer could not be acquired and
\* PlanningFailed when the plan could not be constructed.
C24_ResourceErrors ==
    /\ (fn_call.fn = "forward" /\ Len(fn_call.audio) >= window_size) =>
          /\ fftw_init = "alloc_failed" =>
                ~fn_call.res.ok /\ fn_call.res.error = "AllocationFailed"
          /\ fftw_init = "plan_failed" =>
                ~fn_call.res.ok /\ fn_call.res.error = "PlanningFailed"
    /\ fn_call.fn = "inverse" =>
          LET ops == {fn_call.resource_ops[k] : k \in 1..Len(fn_call.resource_ops)}
          IN  /\ ("alloc_complex_failed" \in ops \/ "alloc_real_failed" \in ops) =>
                    ~fn_call.res.ok /\ fn_call.res.error = "AllocationFailed"
              /\ "create_plan_failed" \in ops =>
                    ~fn_call.res.ok /\ fn_call.res.error = "PlanningFailed"

\* C29: every transform stays inside its scratch buffers: the complex buffer
\* of the real-to-complex plan (forward) and of the complex-to-real plan
\* (inverse) of size fft_size holds the fft_size / 2 + 1 complex bins such a
\* transform writes or reads, the real buffer holds fft_size values, and no
\* call reads or writes outside a buffer.
C29_BuffersInBounds ==
    (fn_call.fn \in {"forward", "inverse"} /\ fn_call.res.ok) =>
        /\ fn_call.complex_capacity >= fft_size \div 2 + 1
        /\ fn_call.real_capacity >= fft_size
        /\ fn_call.complex_accessed \subseteq 0..(fn_call.complex_capacity - 1)
        /\ fn_call.real_accessed \subseteq 0..(fn_call.real_capacity - 1)

----------------------------------------------------------------------------
(* The conversion between interleaved and planar stereo, checked under     *)
(* FnSpec.                                                                 *)

\* C30: deinterleave_stereo puts sample 2i into left[i] and sample 2i + 1
\* into right[i], both channels getting floor(len / 2) samples, and
\* interleave_stereo of the two channels is the input again when its length
\* is even, and the input without its last sample when it is odd.
C30_InterleaveRoundTrip ==
    fn_call.fn = "deinterleave_stereo" =>
        LET x == fn_call.interleaved
            n == Len(x) \div 2
        IN  /\ Len(fn_call.res.left) = n
            /\ Len(fn_call.res.right) = n
            /\ \A i \in 0..(n - 1) :
                  /\ fn_call.res.left[i + 1] = x[2 * i + 1]
                  /\ fn_call.res.right[i + 1] = x[2 * i + 2]
            /\ Len(x) % 2 = 0 => fn_call.back = x
            /\ Len(x) % 2 = 1 => fn_call.back = SubSeq(x, 1, Len(x) - 1)

\* five samples: two pairs and an unpaired last one
C30_Witness ==
    /\ fn_call.fn = "deinterleave_stereo"
    /\ Len(fn_call.interleaved) = 5
    /\ fn_call.res.left = <<<<1, 1>>, <<3, 1>>>>
    /\ fn_call.res.right = <<<<2, 1>>, <<4, 1>>>>
    /\ fn_call.back = <<<<1, 1>>, <<2, 1>>, <<3, 1>>, <<4, 1>>>>

----------------------------------------------------------------------------
(* Further claims about StemProcessor::process, checked under Spec.        *)

\* C27: a signal that fits in one step (1 <= signal_length <= chunk_size -
\* overlap) makes one chunk, which is both first and last; every blend
\* weight is 1, and each stem's output holds the engine's result for that
\* stem on its first signal_length samples, unaltered by any fade (and 0
\* where the engine returned fewer samples).
C27_SingleChunk ==
    Running =>
        /\ (1 <= num_samples /\ num_samples <= model_chunk_size - chunk_overlap)
               <=> num_chunks = 1
        /\ num_chunks = 1 =>
              /\ IsFirst(0)
              /\ IsLast(0, num_chunks)
              /\ \A i \in 0..(model_chunk_size - 1) :
                    BlendWeight(i, model_chunk_size, chunk_overlap,
                                IsFirst(0), IsLast(0, num_chunks)) = One
              /\ \A s \in Stems : BlendDone(0, s) =>
                    \A p \in 1..num_samples :
                        out[s][p] = IF p <= infer_log[1].samples
                                    THEN EngineSample(infer_log[1], s, 0)
                                    ELSE Zero

\* a finished 6-stem run on a signal of exactly one step
C27_Witness ==
    /\ pc = "done"
    /\ num_chunks = 1
    /\ num_samples = model_chunk_size - chunk_overlap
    /\ num_detected_stems = 6
    /\ infer_log[1].samples = model_chunk_size
    /\ out[5][num_samples] = EngineSample(infer_log[1], 5, 0)

\* the stems of the returned SeparatedStems that hold num_samples frames
Populated == {s \in Stems : Len(returned[1][s]) = 2 * num_samples /\ returned[1][s] # <<>>}

\* C28: every successful run of process, for any stereo input length
\* including zero samples, has determined a stem set of exactly 4 or 6
\* entries: the detected count is 4 or 6 when process returns success, and
\* the returned SeparatedStems has exactly that many populated stems.
C28_StemSet ==
    pc = "done" =>
        /\ num_detected_stems \in {4, 6}
        /\ Cardinality(Populated) = num_detected_stems

\* ---------------------------------------------------------------------------
\* write_stems called directly, over base paths of every shape
\* ---------------------------------------------------------------------------

\* the longest file name of a base path
MaxNameLen == 3

\* the characters of a file name: a letter and the period
PathChars == {"a", "."}

\* the base paths: a file name of up to MaxNameLen characters, none for a
\* path that ends in a separator, in the current or a named directory
BasePaths ==
    {[dir |-> d, filename |-> f] :
        d \in {"", "music"}, f \in UNION {[1..k -> PathChars] : k \in 0..MaxNameLen}}

\* SeparatedStems of a model with n stems: the additional stems empty when n is 4
StemsOf(n) == [s \in Stems |-> IF s < n THEN <<1, 1>> ELSE <<>>]

CallWriteStems(base_path, n, fail_at) ==
    /\ fn_call = NoCall
    /\ fn_call' = [fn |-> "write_stems",
                   base_path |-> base_path,
                   num_stems |-> n,
                   res |-> write_stems(base_path, StemsOf(n), fail_at)]
    /\ UNCHANGED <<pc, plan_ok, audio, left, right, num_samples, num_chunks, out,
                   num_detected_stems, chunk_idx, left_chunk, right_chunk, spec_left,
                   spec_right, stem_specs, stem_pos, error, returned, events,
                   infer_log, last_reads, last_writes, covered, blended, engine_out,
                   files, fftw_init, exit_code, stages>>

PathNext ==
    \E base_path \in BasePaths, n \in {4, 6}, fail_at \in FailAt :
        CallWriteStems(base_path, n, fail_at)

PathSpec == FnInit /\ [][PathNext]_vars

\* out is the file name with "_<name>" inserted before its extension: before
\* the rightmost period, or at the end when the file name has no extension
\* (no period past its first character, or the file name is dot or dot-dot)
InsertedBeforeExtension(filename, name, inserted) ==
    LET special == filename \in {<<".">>, <<".", ".">>}
    IN  \E k \in 0..Len(filename) :
            /\ inserted = SubSeq(filename, 1, k) \o <<"_", name>>
                              \o SubSeq(filename, k + 1, Len(filename))
            /\ k < Len(filename) =>
                   /\ ~special
                   /\ k >= 1
                   /\ filename[k + 1] = "."
                   /\ \A j \in (k + 2)..Len(filename) : filename[j] # "."
            /\ k = Len(filename) =>
                   special \/ \A j \in 2..Len(filename) : filename[j] # "."

\* C25: every stem file write_stems writes is named after the base path with
\* "_<stem name>" inserted before the extension and lies in the base path's
\* directory; the paths written are pairwise distinct and none is the base
\* path; a base path without a file name is rejected with InvalidPath and
\* nothing is written; when the call succeeds every stem has its file.
C25_StemPaths ==
    fn_call.fn = "write_stems" =>
        LET base == fn_call.base_path
            res == fn_call.res
        IN  /\ base.filename = <<>> =>
                   ~res.ok /\ res.error = "InvalidPath" /\ res.written = <<>>
            /\ res.ok => Len(res.written) = fn_call.num_stems
            /\ \A i \in 1..Len(res.written) :
                   /\ res.written[i][1].dir = base.dir
                   /\ InsertedBeforeExtension(base.filename, ProtocolOrder[i],
                                              res.written[i][1].filename)
                   /\ res.written[i][1] # base
                   /\ \A j \in 1..Len(res.written) :
                          j # i => res.written[j][1] # res.written[i][1]

\* six stems written next to a base path of the form base.ext
C25_Witness ==
    /\ fn_call.fn = "write_stems"
    /\ fn_call.base_path = [dir |-> "music", filename |-> <<"a", ".", "a">>]
    /\ fn_call.res.ok
    /\ Len(fn_call.res.written) = 6
    /\ fn_call.res.written[4][1] =
           [dir |-> "music", filename |-> <<"a", "_", "vocals", ".", "a">>]

\* ---------------------------------------------------------------------------
\* main: the command-line run
\* ---------------------------------------------------------------------------

\* mutant: main goes on whatever the earlier stages returned
ReadyAnyOutcome(n) == Len(stages) = n

\* main has reached the stage after the first n: each of them has returned
\* and none took the early return EXIT_FAILURE
Ready(n) == Len(stages) = n /\ \A i \in 1..n : stages[i][2]

\* a stage of main that is one call: it returns ok or main returns EXIT_FAILURE
MainStage(index, name, ok) ==
    /\ Ready(index - 1)
    /\ stages' = Append(stages, <<name, ok>>)
    /\ exit_code' = IF ok THEN exit_code ELSE "failure"
    /\ UNCHANGED <<pc, plan_ok, audio, left, right, num_samples, num_chunks, out,
                   num_detected_stems, chunk_idx, left_chunk, right_chunk, spec_left,
                   spec_right, stem_specs, stem_pos, error, returned, events,
                   infer_log, last_reads, last_writes, covered, fn_call, blended,
                   engine_out, files, fftw_init>>

\* the argument count check
CheckArguments(ok) == MainStage(1, "arguments", ok)

\* stems::validate_audio_file(input_file)
ValidateAudioFile(ok) == MainStage(2, "validate_input", ok)

\* stems::OnnxModel::load(model_path)
LoadModel(ok) == MainStage(3, "load_model", ok)

\* load_audio(input_file, info)
LoadAudio(ok) == MainStage(4, "load_audio", ok)

\* processor.process(audio_data, info.sample_rate, info.channels): the samples
\* load_audio read and the channel count validate_audio_file reported
MainProcess(a, channels) == Ready(4) /\ Process(a, channels)

\* process has returned: its value, or EXIT_FAILURE on its error
ProcessReturns ==
    /\ Ready(4)
    /\ pc \in {"done", "failed"}
    /\ stages' = Append(stages, <<"separate", pc = "done">>)
    /\ exit_code' = IF pc = "done" THEN exit_code ELSE "failure"
    /\ UNCHANGED <<pc, plan_ok, audio, left, right, num_samples, num_chunks, out,
                   num_detected_stems, chunk_idx, left_chunk, right_chunk, spec_left,
                   spec_right, stem_specs, stem_pos, error, returned, events,
                   infer_log, last_reads, last_writes, covered, fn_call, blended,
                   engine_out, files, fftw_init>>

\* stems::write_stems(output_path, *stems_result, ...)
MainWriteStems(fail_at) == Ready(5) /\ WriteStems(fail_at)

\* write_stems has returned: EXIT_SUCCESS, or EXIT_FAILURE on its error
WriteReturns ==
    /\ Ready(5)
    /\ files.called
    /\ stages' = Append(stages, <<"write_stems", files.ok>>)
    /\ exit_code' = IF files.ok THEN "success" ELSE "failure"
    /\ UNCHANGED <<pc, plan_ok, audio, left, right, num_samples, num_chunks, out,
                   num_detected_stems, chunk_idx, left_chunk, right_chunk, spec_left,
                   spec_right, stem_specs, stem_pos, error, returned, events,
                   infer_log, last_reads, last_writes, covered, fn_call, blended,
                   engine_out, files, fftw_init>>

MainNext ==
    \/ \E ok \in BOOLEAN : CheckArguments(ok)
    \/ \E ok \in BOOLEAN : ValidateAudioFile(ok)
    \/ \E ok \in BOOLEAN : LoadModel(ok)
    \/ \E ok \in BOOLEAN : LoadAudio(ok)
    \/ \E a \in Inputs, channels \in {1, 2} : MainProcess(a, channels)
    \/ ExtractChunks
    \/ Forward
    \/ \E resp \in EngineResponses : Infer(resp)
    \/ DetectStems
    \/ BlendStem
    \/ Finish
    \/ ProcessReturns
    \/ \E fail_at \in FailAt : MainWriteStems(fail_at)
    \/ WriteReturns

MainSpec == Init /\ [][MainNext]_vars

\* the stages of a run in the order the specification gives them, after the
\* argument check
StageOrder == <<"arguments", "validate_input", "load_model", "load_audio",
                "separate", "write_stems">>

\* C26: the stages of a run finish in the fixed order validate input, load
\* model, load audio, separate, write stems; a stage starts only if every
\* earlier stage succeeded (separation has started when process has left its
\* entry, writing when write_stems has been called); the exit status is
\* success exactly when all stages succeeded, and failure as soon as one
\* failed; no stem file exists unless process returned the stems after its
\* last chunk.
C26_StageOrder ==
    /\ Len(stages) <= Len(StageOrder)
    /\ \A i \in 1..Len(stages) :
           /\ stages[i][1] = StageOrder[i]
           /\ \A j \in 1..(i - 1) : stages[j][2]
    /\ pc # "idle" => Len(stages) >= 4 /\ \A j \in 1..4 : stages[j][2]
    /\ files.called => Len(stages) >= 5 /\ \A j \in 1..5 : stages[j][2]
    /\ exit_code = "success" <=>
           Len(stages) = Len(StageOrder) /\ \A i \in 1..Len(stages) : stages[i][2]
    /\ exit_code = "failure" <=> \E i \in 1..Len(stages) : ~stages[i][2]
    /\ files.written # <<>> =>
           pc = "done" /\ error = "none" /\ chunk_idx = num_chunks /\ returned # <<>>

\* a run that went through every stage and wrote the stem files
C26_Witness ==
    /\ exit_code = "success"
    /\ Len(stages) = 6
    /\ num_chunks >= 2
    /\ Len(files.written) >= 4

====
